---------------------------- MODULE Spec2Model ----------------------------
(***************************************************************************)
(* Book identity and scan ingestion of the appka repository:               *)
(*   utils.py       generate_book_hash, parse_scanned_page_filename        *)
(*   db_manager.py  DBManager (the MongoDB book store and the JSON mirror) *)
(*   scanner.py     Scanner.process_scans_batch                            *)
(*                                                                         *)
(* Text is a sequence of characters, one string per character (a letter   *)
(* outside ASCII is named: "o_acute", "l_stroke"), so that stripping, case *)
(* folding, diacritic removal, zero padding and the filename grammar are   *)
(* computed character by character as the code computes them.              *)
(***************************************************************************)
EXTENDS Integers, Sequences, FiniteSets, TLC

(***************************************************************************)
(* Bounds of the model.                                                    *)
(***************************************************************************)
\* DBManager API runs: number of calls made on the store
MaxCalls == 2
\* largest reading of the wall clock (datetime.now(), in BSON milliseconds)
MaxClock == 1
\* batch runs: largest number of files in the work list
MaxFiles == 2

(***************************************************************************)
(* Python values.                                                          *)
(***************************************************************************)
\* None, where the value is otherwise a number (num_pages)
NoneNumber == -1

\* None, where the value is otherwise a dict (a parsed name, a document)
NoneDict == [None |-> TRUE]

\* None, where the value is otherwise a str (a book hash); like None, the
\* empty str is false in a condition
NoneStr == <<>>

\* an empty dict
EmptyDict == <<>>

\* a file that does not exist, and a file that holds a JSON list
NoFile == [exists |-> FALSE, content |-> <<>>]

FileOf(content) == [exists |-> TRUE, content |-> content]

\* dict.get(key, default)
Get(d, key, default) == IF key \in DOMAIN d THEN d[key] ELSE default

\* a dict with one key removed: d.copy(); d.pop(key, None)
Pop(d, key) == [k \in DOMAIN d \ {key} |-> d[k]]

\* a dict with one key set: d[key] = value
Put(d, key, value) ==
    [k \in DOMAIN d \cup {key} |-> IF k = key THEN value ELSE d[k]]

(***************************************************************************)
(* utils.py: text normalisation and the book hash.                         *)
(***************************************************************************)
Whitespace == {" "}

RECURSIVE lstrip(_)
lstrip(s) == IF s # <<>> /\ Head(s) \in Whitespace THEN lstrip(Tail(s)) ELSE s

RECURSIVE rstrip(_)
rstrip(s) ==
    IF s # <<>> /\ s[Len(s)] \in Whitespace
    THEN rstrip(SubSeq(s, 1, Len(s) - 1))
    ELSE s

\* a strip that leaves the blanks at the end
strip_left_only(s) == lstrip(s)

\* str.strip()
strip(s) == rstrip(lstrip(s))

\* one character through NFD, removal of combining marks, and
\* encode('ascii', 'ignore'): the base letter of a decomposable character,
\* nothing for a non-ASCII character that has no decomposition
AsciiBase(c) ==
    CASE c = "o_acute" -> <<"o">>
      [] c = "O_ACUTE" -> <<"O">>
      [] c = "z_dot" -> <<"z">>
      [] c = "Z_DOT" -> <<"Z">>
      [] c = "l_stroke" -> <<>>
      [] c = "L_STROKE" -> <<>>
      [] OTHER   -> <<c>>

\* a removal that removes nothing
keep_diacritics(text) == text

RECURSIVE remove_diacritics(_)
remove_diacritics(text) ==
    IF text = <<>> THEN <<>>
    ELSE AsciiBase(Head(text)) \o remove_diacritics(Tail(text))

\* one character through str.lower()
LowerChar(c) ==
    CASE c = "A" -> "a"
      [] c = "B" -> "b"
      [] c = "C" -> "c"
      [] c = "D" -> "d"
      [] c = "E" -> "e"
      [] c = "F" -> "f"
      [] c = "G" -> "g"
      [] c = "H" -> "h"
      [] c = "I" -> "i"
      [] c = "J" -> "j"
      [] c = "K" -> "k"
      [] c = "L" -> "l"
      [] c = "M" -> "m"
      [] c = "N" -> "n"
      [] c = "O" -> "o"
      [] c = "P" -> "p"
      [] c = "Q" -> "q"
      [] c = "R" -> "r"
      [] c = "S" -> "s"
      [] c = "T" -> "t"
      [] c = "U" -> "u"
      [] c = "V" -> "v"
      [] c = "W" -> "w"
      [] c = "X" -> "x"
      [] c = "Y" -> "y"
      [] c = "Z" -> "z"
      [] c = "O_ACUTE" -> "o_acute"
      [] c = "Z_DOT" -> "z_dot"
      [] c = "L_STROKE" -> "l_stroke"
      [] OTHER -> c

\* str.lower()
RECURSIVE lower(_)
lower(s) == IF s = <<>> THEN <<>> ELSE <<LowerChar(Head(s))>> \o lower(Tail(s))

\* config.NORMALIZE_HASH
NORMALIZE_HASH == TRUE

safe_get_and_normalize(meta, key) ==
    LET value == strip(Get(meta, key, <<>>))
    IN  lower(IF NORMALIZE_HASH THEN remove_diacritics(value) ELSE value)

\* "|".join of the four normalised fields
base_string(meta) ==
    safe_get_and_normalize(meta, "title") \o <<"|">> \o
    safe_get_and_normalize(meta, "authors") \o <<"|">> \o
    safe_get_and_normalize(meta, "year") \o <<"|">> \o
    safe_get_and_normalize(meta, "pub_place")

\* hashlib.sha256(...).hexdigest()[:BOOK_HASH_LENGTH], taken as free of
\* collisions: the digest of a text is that text behind a "#"
sha256_hex(s) == <<"#">> \o s

generate_book_hash(meta) == sha256_hex(base_string(meta))

(***************************************************************************)
(* config.py and utils.py: the scan filename grammar.                      *)
(***************************************************************************)
\* config.PAGE_NUMBER_PADDING
PAGE_NUMBER_PADDING == 4

\* config.PAGE_TYPE_MAPPING
PAGE_TYPE_MAPPING ==
    [w |-> "Wstep", s |-> "Strona Glowna", m |-> "Mapa", i |-> "Ilustracja",
     t |-> "Tabela", c |-> "Okladka", g |-> "Grzbiet", o |-> "Obwoluta",
     e |-> "Wyklejka", b |-> "Pusta Strona"]

\* [wsimtcgoeb]
TypeCodes == {"w", "s", "i", "m", "t", "c", "g", "o", "e", "b"}

\* the characters re.IGNORECASE lets a lowercase letter of the pattern
\* match besides its two cases: LATIN SMALL LETTER LONG S for s, LATIN
\* SMALL LETTER DOTLESS I for i
IgnoreCaseFixes(letter) ==
    CASE letter = "s" -> {"long_s"}
      [] letter = "i" -> {"dotless_i"}
      [] OTHER -> {}

\* the character c matches the lowercase letter of the pattern
MatchesIgnoreCase(c, letter) ==
    LowerChar(c) = letter \/ c \in IgnoreCaseFixes(letter)

\* the text matches the lowercase word of the pattern, letter by letter
MatchesWord(text, word) ==
    /\ Len(text) = Len(word)
    /\ \A i \in 1..Len(word) : MatchesIgnoreCase(text[i], word[i])

\* the ASCII digits, in order of value
Digits == <<"0", "1", "2", "3", "4", "5", "6", "7", "8", "9">>

\* \d of a str pattern: any Unicode decimal digit, here the ASCII digits
\* and ARABIC-INDIC DIGIT ONE
IsDigit(c) == c = "arabic_1" \/ \E i \in 1..Len(Digits) : Digits[i] = c

\* the value int() gives the digit
DigitValue(c) ==
    IF c = "arabic_1" THEN 1
    ELSE (CHOOSE i \in 1..Len(Digits) : Digits[i] = c) - 1

\* jpg|jpeg|png|tiff?
Extensions ==
    {<<"j", "p", "g">>, <<"j", "p", "e", "g">>, <<"p", "n", "g">>,
     <<"t", "i", "f">>, <<"t", "i", "f", "f">>}

\* $ of the pattern: the end of the name, or just before a final newline
NameEnd(fname) ==
    IF fname # <<>> /\ fname[Len(fname)] = "\n" THEN Len(fname) - 1
    ELSE Len(fname)

\* A suffix pattern without its $: the extension may end anywhere.
SuffixAtUnanchored(fname, k, j) ==
    /\ k + 2 <= j /\ j + 2 <= NameEnd(fname)
    /\ fname[k] = "_"
    /\ \E code \in TypeCodes : MatchesIgnoreCase(fname[k + 1], code)
    /\ \A i \in (k + 2)..j : IsDigit(fname[i])
    /\ fname[j + 1] = "."
    /\ \E ext \in Extensions, e \in (j + 2)..NameEnd(fname) :
          MatchesWord(SubSeq(fname, j + 2, e), ext)

\* fname from position k matches _(page_type)(page_num)\.(ext)$ with the
\* digits ending at position j, letters compared without case
SuffixAt(fname, k, j) ==
    /\ k + 2 <= j /\ j + 2 <= NameEnd(fname)
    /\ fname[k] = "_"
    /\ \E code \in TypeCodes : MatchesIgnoreCase(fname[k + 1], code)
    /\ \A i \in (k + 2)..j : IsDigit(fname[i])
    /\ fname[j + 1] = "."
    /\ \E ext \in Extensions :
          MatchesWord(SubSeq(fname, j + 2, NameEnd(fname)), ext)

\* the alias (.+?) is fname[1..k-1]: not empty, no newline in it
AliasEndsBefore(fname, k) ==
    /\ k >= 2
    /\ \A i \in 1..(k - 1) : fname[i] # "\n"
    /\ \E j \in 1..Len(fname) : SuffixAt(fname, k, j)

\* re.match(config.SCAN_FILENAME_REGEX, fname, re.IGNORECASE)
SCAN_FILENAME_REGEX(fname) == \E k \in 1..Len(fname) : AliasEndsBefore(fname, k)

\* int(page_num)
RECURSIVE int(_)
int(ds) ==
    IF ds = <<>> THEN 0
    ELSE 10 * int(SubSeq(ds, 1, Len(ds) - 1)) + DigitValue(ds[Len(ds)])

\* A padding that adds a zero whatever the width.
zfill_one_more(ds, width) == <<"0">> \o ds

\* str.zfill(width)
RECURSIVE zfill(_, _)
zfill(ds, width) == IF Len(ds) >= width THEN ds ELSE zfill(<<"0">> \o ds, width)

\* roman_map.get(n, "")
roman_map(n) ==
    CASE n = 1 -> <<"i">>
      [] n = 2 -> <<"i", "i">>
      [] n = 3 -> <<"i", "i", "i">>
      [] n = 4 -> <<"i", "v">>
      [] n = 5 -> <<"v">>
      [] n = 6 -> <<"v", "i">>
      [] n = 7 -> <<"v", "i", "i">>
      [] n = 8 -> <<"v", "i", "i", "i">>
      [] n = 9 -> <<"i", "x">>
      [] n = 10 -> <<"x">>
      [] OTHER -> <<>>

parse_scanned_page_filename(fname) ==
    IF ~SCAN_FILENAME_REGEX(fname) THEN NoneDict
    ELSE
      LET \* the lazy alias: the first position the rest matches from
          k == CHOOSE k \in 1..Len(fname) :
                  /\ AliasEndsBefore(fname, k)
                  /\ \A l \in 1..(k - 1) : ~AliasEndsBefore(fname, l)
          j == CHOOSE j \in 1..Len(fname) : SuffixAt(fname, k, j)
          page_type == <<LowerChar(fname[k + 1])>>
          page_num == SubSeq(fname, k + 2, j)
          ext == SubSeq(fname, j + 2, NameEnd(fname))
      IN  [alias |-> SubSeq(fname, 1, k - 1),
           page_raw_number_str |-> page_type \o zfill(page_num, PAGE_NUMBER_PADDING),
           page_type_short |-> page_type,
           page_type_full |-> IF page_type[1] \in DOMAIN PAGE_TYPE_MAPPING
                              THEN PAGE_TYPE_MAPPING[page_type[1]]
                              ELSE "Nieznany",
           page_number_numeric |-> int(page_num),
           roman_number |-> IF page_type = <<"w">> THEN roman_map(int(page_num))
                            ELSE <<>>,
           original_extension |-> <<".">> \o lower(ext)]

(***************************************************************************)
(* The state: the MongoDB collection, the wall clock, the directories and  *)
(* the position of process_scans_batch in its loop.                        *)
(***************************************************************************)
VARIABLES
    books_collection,   \* the documents of the collection, in natural order
    now,                \* the last reading taken of the wall clock
    last,               \* the last call under check and its result
    inbox,              \* the names of the files of config.SCAN_DIR
    processed_dir,      \* config.PROCESSED_DIR: path -> what the file holds
    metadata_json,      \* book hash -> the content of its metadata.json
    date_index,         \* outputs/date_index.json: whether it is there, and its list
    files_to_process,   \* the sorted work list of the batch
    idx,                \* scan_path is files_to_process[idx]
    pc,                 \* the step of process_scans_batch to run next
    session_processed_aliases,  \* alias -> book hash, or None if cancelled
    parsed_scan_info,   \* locals of the loop body
    current_book_hash,
    current_book_meta,
    ocr_text,
    log                 \* what the batch has done so far, in order

storeVars == <<books_collection, now, last>>

diskVars == <<inbox, processed_dir, metadata_json, date_index>>

localVars ==
    <<parsed_scan_info, current_book_hash, current_book_meta, ocr_text>>

loopVars ==
    <<files_to_process, idx, pc, session_processed_aliases, localVars, log>>

vars == <<storeVars, diskVars, loopVars>>

(***************************************************************************)
(* db_manager.py: the pymongo operations the code calls.                   *)
(***************************************************************************)
\* dict.update(other), and the effect of $set on a document
Update(d, other) ==
    [k \in DOMAIN d \cup DOMAIN other |->
        IF k \in DOMAIN other THEN other[k] ELSE d[k]]

Min(S) == CHOOSE x \in S : \A y \in S : x <= y

\* position of the first document of coll with this book_hash, 0 if none
FindIndex(coll, book_hash) ==
    LET hits == {i \in 1..Len(coll) : coll[i].book_hash = book_hash}
    IN  IF hits = {} THEN 0 ELSE Min(hits)

\* position of the first element of doc's scans array with this
\* page_raw_number_str, 0 if none (or if the document has no scans array)
ScanIndex(doc, token) ==
    LET scans == Get(doc, "scans", <<>>)
        hits == {j \in 1..Len(scans) : scans[j].page_raw_number_str = token}
    IN  IF hits = {} THEN 0 ELSE Min(hits)

\* books_collection.find_one({"book_hash": book_hash})
find_one(coll, book_hash) ==
    IF FindIndex(coll, book_hash) = 0 THEN NoneDict
    ELSE coll[FindIndex(coll, book_hash)]

\* A store whose upsert writes the $setOnInsert fields on every call, not
\* only on insertion: what created_at would suffer if the code passed it
\* in $set.
update_one_upsert_resetting(coll, book_hash, set, on_insert) ==
    LET i == FindIndex(coll, book_hash)
    IN  IF i = 0
        THEN Append(coll, Update(Update([book_hash |-> book_hash], set), on_insert))
        ELSE [coll EXCEPT ![i] = Update(Update(coll[i], set), on_insert)]

\* A store whose upsert replaces the matching document by the fields set,
\* as replace_one would.
update_one_upsert_replacing(coll, book_hash, set, on_insert) ==
    LET i == FindIndex(coll, book_hash)
    IN  IF i = 0
        THEN Append(coll, Update(Update([book_hash |-> book_hash], set), on_insert))
        ELSE [coll EXCEPT ![i] = Update([book_hash |-> book_hash], set)]

\* update_one({"book_hash": h}, {"$set": set, "$setOnInsert": on_insert},
\*            upsert=True)
update_one_upsert(coll, book_hash, set, on_insert) ==
    LET i == FindIndex(coll, book_hash)
    IN  IF i = 0
        THEN Append(coll, Update(Update([book_hash |-> book_hash], set), on_insert))
        ELSE [coll EXCEPT ![i] = Update(coll[i], set)]

\* update_one({"book_hash": h, "scans.page_raw_number_str": token},
\*            {"$set": {"scans.$": scan}}): the first matching element of the
\* first matching document is replaced; modified_count counts a document
\* only if the update changed it
update_one_set_scan(coll, book_hash, scan) ==
    LET token == scan.page_raw_number_str
        hits == {i \in 1..Len(coll) :
                    coll[i].book_hash = book_hash /\ ScanIndex(coll[i], token) # 0}
    IN  IF hits = {} THEN [coll |-> coll, modified_count |-> 0]
        ELSE LET i == Min(hits)
                 j == ScanIndex(coll[i], token)
                 new == [coll EXCEPT
                            ![i] = Put(coll[i], "scans",
                                       [coll[i].scans EXCEPT ![j] = scan])]
             IN  [coll |-> new,
                  modified_count |-> IF new = coll THEN 0 ELSE 1]

\* A store whose $push puts the element at the head of the array.
update_one_push_front(coll, book_hash, scan) ==
    LET i == FindIndex(coll, book_hash)
    IN  IF i = 0 THEN coll
        ELSE [coll EXCEPT
                 ![i] = Put(coll[i], "scans",
                            <<scan>> \o Get(coll[i], "scans", <<>>))]

\* update_one({"book_hash": h}, {"$push": {"scans": scan}})
update_one_push(coll, book_hash, scan) ==
    LET i == FindIndex(coll, book_hash)
    IN  IF i = 0 THEN coll
        ELSE [coll EXCEPT
                 ![i] = Put(coll[i], "scans",
                            Append(Get(coll[i], "scans", <<>>), scan))]

(***************************************************************************)
(* db_manager.py: DBManager.                                               *)
(***************************************************************************)
\* A connection check that says yes whatever the ping gave.
is_connected_always(conn) == TRUE

\* whether client.admin.command('ping') answered
is_connected(conn) == conn

get_book_by_hash(coll, conn, book_hash) ==
    IF ~is_connected(conn) THEN NoneDict ELSE find_one(coll, book_hash)

\* A lookup by metadata that never finds the book.
get_book_by_meta_blind(coll, conn, meta_data) == NoneDict

get_book_by_meta(coll, conn, meta_data) ==
    IF ~is_connected(conn) THEN NoneDict
    ELSE get_book_by_hash(coll, conn, generate_book_hash(meta_data))

\* A book document that ignores the notes of the metadata record.
book_data_without_notes(book_meta, t) ==
    LET book_meta_copy == Pop(book_meta, "language")
    IN  [book_hash |-> generate_book_hash(book_meta),
         title |-> Get(book_meta_copy, "title", <<>>),
         authors |-> Get(book_meta_copy, "authors", <<>>),
         year |-> Get(book_meta_copy, "year", <<>>),
         pub_place |-> Get(book_meta_copy, "pub_place", <<>>),
         publisher |-> Get(book_meta_copy, "publisher", <<>>),
         num_pages |-> Get(book_meta_copy, "num_pages", NoneNumber),
         notes |-> <<>>,
         keywords |-> Get(book_meta_copy, "keywords", <<>>),
         maps_present |-> Get(book_meta_copy, "maps_present", FALSE),
         illustrations_present |-> Get(book_meta_copy, "illustrations_present", FALSE),
         tables_present |-> Get(book_meta_copy, "tables_present", FALSE),
         last_updated_book_at |-> t]

\* A book document that stores neither the notes nor the year of the
\* metadata record.
book_data_without_year(book_meta, t) ==
    [book_data_without_notes(book_meta, t) EXCEPT !.year = <<>>]

\* A book document that stores the clock reading as the page count.
book_data_stamped(book_meta, t) ==
    [book_data_without_notes(book_meta, t) EXCEPT
        !.notes = Get(Pop(book_meta, "language"), "notes", <<>>),
        !.num_pages = t]

book_data_to_upsert(book_meta, t) ==
    LET book_meta_copy == Pop(book_meta, "language")
    IN  [book_hash |-> generate_book_hash(book_meta),
         title |-> Get(book_meta_copy, "title", <<>>),
         authors |-> Get(book_meta_copy, "authors", <<>>),
         year |-> Get(book_meta_copy, "year", <<>>),
         pub_place |-> Get(book_meta_copy, "pub_place", <<>>),
         publisher |-> Get(book_meta_copy, "publisher", <<>>),
         num_pages |-> Get(book_meta_copy, "num_pages", NoneNumber),
         notes |-> Get(book_meta_copy, "notes", <<>>),
         keywords |-> Get(book_meta_copy, "keywords", <<>>),
         maps_present |-> Get(book_meta_copy, "maps_present", FALSE),
         illustrations_present |-> Get(book_meta_copy, "illustrations_present", FALSE),
         tables_present |-> Get(book_meta_copy, "tables_present", FALSE),
         last_updated_book_at |-> t]

scan_info_to_save(scan_info, t) ==
    Put(Pop(scan_info, "language"), "processed_at", t)

\* The store writes of upsert_book_and_scan. t1, t2, t3 are the three
\* readings of datetime.now(); fault names the update_one that raises
\* PyMongoError ("none": none does). The result is the collection left
\* behind and what the caller gets: "True", "False", or "raise" when the
\* error leaves the method (nothing in it catches one).
upsert_book_and_scan(coll, conn, book_meta, scan_info, t1, t2, t3, fault) ==
    IF ~is_connected(conn) THEN [coll |-> coll, ret |-> "False"]
    ELSE
      LET book_hash == generate_book_hash(book_meta)
          c1 == update_one_upsert(coll, book_hash,
                                  book_data_to_upsert(book_meta, t1),
                                  [created_at |-> t2])
          saved == scan_info_to_save(scan_info, t3)
          update_scan_result == update_one_set_scan(c1, book_hash, saved)
      IN  IF fault = "book" THEN [coll |-> coll, ret |-> "raise"]
          ELSE IF fault = "scan" THEN [coll |-> c1, ret |-> "raise"]
          ELSE IF update_scan_result.modified_count > 0
          THEN [coll |-> update_scan_result.coll, ret |-> "True"]
          ELSE IF fault = "push" THEN [coll |-> c1, ret |-> "raise"]
          ELSE [coll |-> update_one_push(c1, book_hash, saved), ret |-> "True"]

Faults == {"none", "book", "scan", "push"}

(***************************************************************************)
(* scanner.py: what process_scans_batch hands to the store for one file.   *)
(***************************************************************************)
\* {identity}_{rawPageToken}{ext}
standardized_filename(book_hash, parsed) ==
    book_hash \o <<"_">> \o parsed.page_raw_number_str
        \o parsed.original_extension

\* config.PROCESSED_DIR / current_book_hash / standardized_filename
destination_path(book_hash, parsed) ==
    book_hash \o <<"/">> \o standardized_filename(book_hash, parsed)

\* {**parsed_scan_info, "ocr_text": ocr_text, "page_full_path": destination_path}
\* A payload that marks a page without recognised text instead of leaving
\* its text empty.
scan_data_for_db_marked(parsed, text, page_full_path) ==
    Update(parsed, [ocr_text |-> IF text = <<>> THEN <<"?">> ELSE text,
                    page_full_path |-> page_full_path])

scan_data_for_db(parsed, text, page_full_path) ==
    Update(parsed, [ocr_text |-> text, page_full_path |-> page_full_path])

(***************************************************************************)
(* The inputs the runs draw from.                                          *)
(***************************************************************************)
\* what _handle_book_metadata_input builds from the answers typed
BookMeta(title, notes) ==
    [title |-> title, authors |-> <<"k">>, year |-> <<"1">>,
     pub_place |-> <<"w">>, publisher |-> <<"p">>, num_pages |-> 30,
     language |-> "pol", notes |-> notes, keywords |-> <<<<"h">>>>,
     maps_present |-> (notes # <<>>), illustrations_present |-> FALSE,
     tables_present |-> FALSE]

\* a record with two of the four identity fields only, as
\* book_meta_missing_data of the utils.py self-test
PartialMeta == [title |-> <<"B">>, authors |-> <<"k">>]

\* the first two share an identity (case and diacritics apart) and differ
\* in title, notes and maps_present; the third is another book
Metas ==
    {BookMeta(<<"O_ACUTE">>, <<>>), BookMeta(<<"o">>, <<"n">>), PartialMeta}

\* text the OCR engine may return
OcrTexts == {<<>>, <<"x">>}

\* scan file names handed to the DBManager API after parsing
ApiNames ==
    {<<"B", "_", "s", "1", ".", "j", "p", "g">>,
     <<"B", "_", "s", "2", ".", "j", "p", "g">>}

\* the parse of each of these names and the identity of each of these
\* records, computed once
ParsedApiName == [f \in ApiNames |-> parse_scanned_page_filename(f)]

HashOfMeta == [m \in Metas |-> generate_book_hash(m)]

\* the payload of the page named f of the book described by m, with OCR
\* text o, as the self-test of db_manager.py builds its payloads
ApiScan(m, f, o) ==
    scan_data_for_db(ParsedApiName[f], o,
                     destination_path(HashOfMeta[m], ParsedApiName[f]))

\* the pages the API runs upsert: page 1 read two ways, and page 2
ApiPages ==
    {<<<<"B", "_", "s", "1", ".", "j", "p", "g">>, <<>>>>,
     <<<<"B", "_", "s", "1", ".", "j", "p", "g">>, <<"x">>>>,
     <<<<"B", "_", "s", "2", ".", "j", "p", "g">>, <<>>>>}

\* what an earlier run may have left in the collection: nothing, or one
\* book with pages 1 and 2, upserted at clock reading 0
EarlierStore ==
    LET m == BookMeta(<<"O_ACUTE">>, <<>>)
        one == upsert_book_and_scan(<<>>, TRUE, m,
                   ApiScan(m, <<"B", "_", "s", "1", ".", "j", "p", "g">>, <<>>),
                   0, 0, 0, "none").coll
    IN  upsert_book_and_scan(one, TRUE, m,
            ApiScan(m, <<"B", "_", "s", "2", ".", "j", "p", "g">>, <<>>),
            0, 0, 0, "none").coll

InitialStores == {<<>>, EarlierStore}

(***************************************************************************)
(* Spec: any sequence of upsert_book_and_scan calls on a DBManager whose   *)
(* server may or may not answer the ping of is_connected at each call.     *)
(***************************************************************************)
NoCall ==
    [n |-> 0, op |-> "none", book_meta |-> NoneDict, scan_info |-> NoneDict,
     processed_at |-> 0, ret |-> "none"]

\* no batch is running
NoBatch ==
    /\ inbox = {}
    /\ processed_dir = EmptyDict
    /\ metadata_json = EmptyDict
    /\ date_index = NoFile
    /\ files_to_process = <<>>
    /\ idx = 0
    /\ pc = "idle"
    /\ session_processed_aliases = EmptyDict
    /\ parsed_scan_info = NoneDict
    /\ current_book_hash = NoneStr
    /\ current_book_meta = NoneDict
    /\ ocr_text = <<>>
    /\ log = <<>>

Init ==
    /\ books_collection \in InitialStores
    /\ now = 0
    /\ last = NoCall
    /\ NoBatch

\* the call has run: r is what upsert_book_and_scan left and returned
Called(book_meta, scan_info, t3, r) ==
    /\ books_collection' = r.coll
    /\ last' = [n |-> last.n + 1, op |-> "upsert", book_meta |-> book_meta,
                scan_info |-> scan_info, processed_at |-> t3, ret |-> r.ret]
    /\ now' = t3

\* db_manager.upsert_book_and_scan(book_meta, scan_info), as the self-test
\* of db_manager.py calls it
CallUpsert ==
    /\ last.n < MaxCalls
    /\ \E m \in Metas, page \in ApiPages, conn \in BOOLEAN, fault \in Faults :
       \E t1 \in now..MaxClock :
       \E t2 \in t1..MaxClock :
       \E t3 \in t2..MaxClock :
        \* no reading is taken that the call does not reach
        /\ ~conn => (t3 = now /\ fault = "none")
        /\ fault = "book" => t3 = t2
        /\ \E scan \in {ApiScan(m, page[1], page[2])} :
           \E r \in {upsert_book_and_scan(books_collection, conn, m, scan,
                                          t1, t2, t3, fault)} :
               Called(m, scan, t3, r)
        /\ UNCHANGED <<diskVars, loopVars>>

Next == CallUpsert

Spec == Init /\ [][Next]_vars

(***************************************************************************)
(* scanner.py and db_manager.py: what the loop of process_scans_batch      *)
(* computes and writes besides the store.                                  *)
(***************************************************************************)
\* the characters of the sample names in code point order; sorted()
\* compares paths by the code points of their characters
CodePoints ==
    <<".", "0", "1", "2", "3", "4", "5", "6", "7", "8", "9",
      "A", "B", "C", "D", "E", "F", "G", "H", "I", "J", "K", "L", "M",
      "N", "O", "P", "Q", "R", "S", "T", "U", "V", "W", "X", "Y", "Z", "_",
      "a", "b", "c", "d", "e", "f", "g", "h", "i", "j", "k", "l", "m",
      "n", "o", "p", "q", "r", "s", "t", "u", "v", "w", "x", "y", "z">>

ord(c) == CHOOSE i \in 1..Len(CodePoints) : CodePoints[i] = c

\* a < b for two names
RECURSIVE PathLess(_, _)
PathLess(a, b) ==
    IF b = <<>> THEN FALSE
    ELSE IF a = <<>> THEN TRUE
    ELSE IF Head(a) = Head(b) THEN PathLess(Tail(a), Tail(b))
    ELSE ord(Head(a)) < ord(Head(b))

\* A listing in descending order of name.
RECURSIVE sorted_descending(_)
sorted_descending(files) ==
    IF files = {} THEN <<>>
    ELSE LET first == CHOOSE x \in files :
                          \A y \in files : x = y \/ PathLess(y, x)
         IN  <<first>> \o sorted_descending(files \ {first})

\* sorted(files)
RECURSIVE sorted(_)
sorted(files) ==
    IF files = {} THEN <<>>
    ELSE LET first == CHOOSE x \in files :
                          \A y \in files : x = y \/ PathLess(x, y)
         IN  <<first>> \o sorted(files \ {first})

\* _handle_book_metadata_input: the record built from the answers typed,
\* None when the title or the authors are left empty
handle_book_metadata_input(title, notes) ==
    IF title = <<>> THEN NoneDict ELSE BookMeta(title, notes)

\* Path.with_suffix(suffix)
with_suffix(path, suffix) ==
    LET dots == {i \in 1..Len(path) : path[i] = "."}
    IN  IF dots = {} THEN path \o suffix
        ELSE SubSeq(path, 1, (CHOOSE i \in dots : \A j \in dots : j <= i) - 1)
                 \o suffix

\* datetime.isoformat()
isoformat(t) == [isoformat |-> t]

\* _json_serializable of a scan entry and of a book document: every
\* datetime becomes its isoformat string
json_serializable_scan(scan) ==
    IF "processed_at" \in DOMAIN scan
    THEN Put(scan, "processed_at", isoformat(scan.processed_at))
    ELSE scan

json_serializable_book(doc) ==
    [k \in DOMAIN doc |->
        IF k \in {"created_at", "last_updated_book_at"} THEN isoformat(doc[k])
        ELSE IF k = "scans"
        THEN [j \in 1..Len(doc.scans) |-> json_serializable_scan(doc.scans[j])]
        ELSE doc[k]]

\* the data save_local_metadata_json dumps to metadata.json, given the
\* data it loaded from the file (an empty dict when there was no file)
save_local_metadata_json(data, book_data, scan_info) ==
    LET serializable_scan_info == json_serializable_scan(scan_info)
        updated == Update(data, json_serializable_book(book_data))
        scans == Get(updated, "scans", <<>>)
        hits == {i \in 1..Len(scans) :
                    Get(scans[i], "page_raw_number_str", NoneStr)
                        = serializable_scan_info.page_raw_number_str}
    IN  Put(updated, "scans",
            IF hits = {} THEN Append(scans, serializable_scan_info)
            ELSE [scans EXCEPT ![Min(hits)] =
                      Update(scans[Min(hits)], serializable_scan_info)])

(***************************************************************************)
(* The inputs the batch runs draw from.                                    *)
(***************************************************************************)
\* the files the inbox may hold: two names of page s0001 of alias B, page
\* s0002 of B, a map of alias C, and a name the pattern rejects (no page
\* type x) that sorts between the files of B and the file of C
ScanNames ==
    {<<"B", "_", "s", "0", "1", ".", "j", "p", "g">>,
     <<"B", "_", "s", "1", ".", "j", "p", "g">>,
     <<"B", "_", "s", "2", ".", "j", "p", "g">>,
     <<"C", "_", "m", "1", ".", "J", "P", "G">>,
     <<"B", "_", "x", "1", ".", "j", "p", "g">>}

ParsedScanName == [f \in ScanNames |-> parse_scanned_page_filename(f)]

\* the answers typed at the metadata prompt, as <<title, notes>>: none, the
\* book of EarlierStore, the same book retitled and annotated, another book
Answers ==
    {<<<<>>, <<>>>>, <<<<"O_ACUTE">>, <<>>>>, <<<<"o">>, <<"n">>>>,
     <<<<"D">>, <<>>>>}

(***************************************************************************)
(* SpecBatch: the loop of Scanner.process_scans_batch over a sorted work   *)
(* list, one action per step of the loop body. The server, the user, the   *)
(* file system and the OCR engine answer each call as they may.            *)
(***************************************************************************)
InitBatch ==
    /\ books_collection \in InitialStores
    /\ now = 0
    /\ last = NoCall
    /\ \E files \in SUBSET ScanNames :
          /\ Cardinality(files) <= MaxFiles
          /\ inbox = files
          /\ files_to_process = sorted(files)
    /\ processed_dir = EmptyDict
    /\ metadata_json = EmptyDict
    /\ date_index = NoFile
    /\ idx = 0
    /\ pc = "for"
    /\ session_processed_aliases = EmptyDict
    /\ parsed_scan_info = NoneDict
    /\ current_book_hash = NoneStr
    /\ current_book_meta = NoneDict
    /\ ocr_text = <<>>
    /\ log = <<>>

scan_path == files_to_process[idx]

Logged(entry) == log' = Append(log, Update([file |-> scan_path], entry))

\* continue: back to the head of the loop; every local is assigned again
\* before the body reads it
Continue ==
    /\ pc' = "for"
    /\ parsed_scan_info' = NoneDict
    /\ current_book_hash' = NoneStr
    /\ current_book_meta' = NoneDict
    /\ ocr_text' = <<>>

\* an unlink that reports what it is told and removes nothing
unlink_nothing(name, removed) == inbox' = inbox

\* scan_path.unlink() inside try/except: the file goes unless unlink raises
Unlink(name, removed) == inbox' = IF removed THEN inbox \ {name} ELSE inbox

\* the loop has no file left
ForEnd ==
    /\ pc = "for" /\ idx = Len(files_to_process)
    /\ pc' = "done"
    /\ UNCHANGED <<storeVars, diskVars, files_to_process, idx,
                   session_processed_aliases, localVars, log>>

\* the next file has a name the pattern rejects: it is unlinked
RejectName ==
    /\ pc = "for" /\ idx < Len(files_to_process)
    /\ ParsedScanName[files_to_process[idx + 1]] = NoneDict
    /\ idx' = idx + 1
    /\ \E removed \in BOOLEAN :
          /\ Unlink(files_to_process[idx + 1], removed)
          /\ log' = Append(log, [file |-> files_to_process[idx + 1],
                                 event |-> "rejected", removed |-> removed])
    /\ Continue
    /\ UNCHANGED <<date_index, storeVars, processed_dir, metadata_json, files_to_process,
                   session_processed_aliases>>

\* the next file has a name the pattern accepts
AcceptName ==
    /\ pc = "for" /\ idx < Len(files_to_process)
    /\ ParsedScanName[files_to_process[idx + 1]] # NoneDict
    /\ idx' = idx + 1
    /\ parsed_scan_info' = ParsedScanName[files_to_process[idx + 1]]
    /\ pc' = "resolve"
    /\ log' = Append(log, [file |-> files_to_process[idx + 1],
                           event |-> "parsed"])
    /\ UNCHANGED <<storeVars, diskVars, files_to_process,
                   session_processed_aliases, current_book_hash,
                   current_book_meta, ocr_text>>

\* the alias has been met in this batch
KnownAlias ==
    /\ pc = "resolve"
    /\ parsed_scan_info.alias \in DOMAIN session_processed_aliases
    /\ LET book_hash == session_processed_aliases[parsed_scan_info.alias]
       IN  IF book_hash = NoneStr
           THEN Continue /\ Logged([event |-> "skipped", why |-> "cancelled"])
           ELSE \E conn \in BOOLEAN :
                LET book == get_book_by_hash(books_collection, conn, book_hash)
                IN  IF book = NoneDict
                    THEN /\ Continue
                         /\ Logged([event |-> "skipped", why |-> "not found"])
                    ELSE /\ current_book_hash' = book_hash
                         /\ current_book_meta' = book
                         /\ pc' = "copy"
                         /\ Logged([event |-> "resolved", how |-> "session",
                                    book_hash |-> book_hash])
                         /\ UNCHANGED <<parsed_scan_info, ocr_text>>
    /\ UNCHANGED <<storeVars, diskVars, files_to_process, idx,
                   session_processed_aliases>>

\* a cancellation that leaves no trace in the session map
cancel_forgotten(aliases, alias) == aliases

\* session_processed_aliases[alias] = None
cancel(aliases, alias) == Put(aliases, alias, NoneStr)

\* a decision that leaves no trace in the session map
remember_nothing(aliases, alias, book_hash) == aliases

\* session_processed_aliases[alias] = current_book_hash
remember(aliases, alias, book_hash) == Put(aliases, alias, book_hash)

\* the alias is new to this batch: the user is asked for the metadata
NewAlias ==
    /\ pc = "resolve"
    /\ parsed_scan_info.alias \notin DOMAIN session_processed_aliases
    /\ \E connected \in BOOLEAN, answer \in Answers, conn \in BOOLEAN :
       LET alias == parsed_scan_info.alias
           book_meta_from_input ==
               handle_book_metadata_input(answer[1], answer[2])
           existing_book_by_meta ==
               IF connected
               THEN get_book_by_meta(books_collection, conn, book_meta_from_input)
               ELSE NoneDict
           book_hash ==
               IF existing_book_by_meta # NoneDict
               THEN existing_book_by_meta.book_hash
               ELSE generate_book_hash(book_meta_from_input)
       IN  \* no second ping without a first that answered
           /\ ~connected => conn = FALSE
           /\ IF book_meta_from_input = NoneDict
              THEN /\ conn = connected
                   /\ session_processed_aliases' =
                          cancel(session_processed_aliases, alias)
                   /\ Continue
                   /\ Logged([event |-> "asked", answered |-> FALSE])
              ELSE /\ session_processed_aliases' =
                          remember(session_processed_aliases, alias, book_hash)
                   /\ current_book_hash' = book_hash
                   /\ current_book_meta' =
                          IF existing_book_by_meta # NoneDict
                          THEN existing_book_by_meta
                          ELSE Put(book_meta_from_input, "book_hash", book_hash)
                   \* "if not current_book_hash: continue"
                   /\ IF book_hash = NoneStr
                      THEN /\ pc' = "for"
                           /\ parsed_scan_info' = NoneDict
                      ELSE /\ pc' = "copy"
                           /\ UNCHANGED parsed_scan_info
                   /\ Logged([event |-> "asked", answered |-> TRUE,
                              reached |-> (connected /\ conn),
                              meta |-> book_meta_from_input,
                              book_hash |-> book_hash,
                              adopted |-> existing_book_by_meta # NoneDict])
                   /\ UNCHANGED ocr_text
    /\ UNCHANGED <<storeVars, diskVars, files_to_process, idx>>

\* a copy2 that reports success and writes nothing
copy2_nothing(dir, src, dst) == dir

\* shutil.copy2(src, dst): dst holds a copy of src, over what it held
copy2(dir, src, dst) == Put(dir, dst, [copy_of |-> src])

\* a copy step without the "continue" of its except branch: the body goes
\* on to OCR whether or not copy2 raised
CopyScanFallingThrough ==
    /\ pc = "copy"
    /\ pc' = "ocr"
    /\ \E copied \in BOOLEAN :
          /\ copied => scan_path \in inbox
          /\ processed_dir' =
                 IF copied
                 THEN copy2(processed_dir, scan_path,
                            destination_path(current_book_hash, parsed_scan_info))
                 ELSE processed_dir
          /\ Logged(IF copied THEN [event |-> "copied"]
                    ELSE [event |-> "skipped", why |-> "copy failed"])
    /\ UNCHANGED <<date_index, storeVars, inbox, metadata_json, files_to_process, idx,
                   session_processed_aliases, localVars>>

\* shutil.copy2(scan_path, destination_path) inside try/except
CopyScan ==
    /\ pc = "copy"
    /\ \E copied \in BOOLEAN :
          /\ copied => scan_path \in inbox
          /\ IF copied
             THEN /\ processed_dir' =
                         copy2(processed_dir, scan_path,
                               destination_path(current_book_hash,
                                                parsed_scan_info))
                  /\ pc' = "ocr"
                  /\ Logged([event |-> "copied"])
                  /\ UNCHANGED localVars
             ELSE /\ Continue
                  /\ Logged([event |-> "skipped", why |-> "copy failed"])
                  /\ UNCHANGED processed_dir
    /\ UNCHANGED <<date_index, storeVars, inbox, metadata_json, files_to_process, idx,
                   session_processed_aliases>>

\* a test that takes every page for a page of text
carries_text_always(parsed) == TRUE

\* parsed_scan_info["page_type_full"] in ["Wstep", "Strona Glowna"]
carries_text(parsed) ==
    parsed.page_type_full \in {PAGE_TYPE_MAPPING.w, PAGE_TYPE_MAPPING.s}

\* OCR of the page types that carry text, and the .txt file beside the copy
Ocr ==
    /\ pc = "ocr"
    /\ pc' = "persist"
    /\ IF carries_text(parsed_scan_info)
       THEN \E is_available \in BOOLEAN, text \in OcrTexts, written \in BOOLEAN :
              /\ ~is_available => (text = <<>> /\ ~written)
              /\ ocr_text' = text
              /\ processed_dir' =
                     IF written
                     THEN Put(processed_dir,
                              with_suffix(destination_path(current_book_hash,
                                                           parsed_scan_info),
                                          <<".", "t", "x", "t">>),
                              [text |-> text])
                     ELSE processed_dir
              /\ Logged([event |-> "ocr", called |-> is_available])
       ELSE /\ ocr_text' = <<>>
            /\ UNCHANGED processed_dir
            /\ Logged([event |-> "ocr", called |-> FALSE])
    /\ UNCHANGED <<date_index, storeVars, inbox, metadata_json, files_to_process, idx,
                   session_processed_aliases, parsed_scan_info,
                   current_book_hash, current_book_meta>>

\* db_manager.upsert_book_and_scan(current_book_meta, scan_data_for_db); an
\* error raised by the store leaves process_scans_batch
Persist ==
    /\ pc = "persist"
    /\ \E conn \in BOOLEAN, fault \in Faults :
       \E t1 \in now..MaxClock :
       \E t2 \in t1..MaxClock :
       \E t3 \in t2..MaxClock :
          /\ ~conn => (t3 = now /\ fault = "none")
          /\ fault = "book" => t3 = t2
          /\ \E scan \in {scan_data_for_db(parsed_scan_info, ocr_text,
                              destination_path(current_book_hash,
                                               parsed_scan_info))} :
             \E r \in {upsert_book_and_scan(books_collection, conn,
                           current_book_meta, scan, t1, t2, t3, fault)} :
                /\ Called(current_book_meta, scan, t3, r)
                /\ pc' = CASE r.ret = "True" -> "mirror"
                           [] r.ret = "False" -> "cleanup"
                           [] OTHER -> "aborted"
                /\ Logged([event |-> "upsert", ret |-> r.ret])
    /\ UNCHANGED <<diskVars, files_to_process, idx, session_processed_aliases,
                   localVars>>

\* after an upsert that returned True: the book is read back and
\* save_local_metadata_json rewrites its metadata.json
Mirror ==
    /\ pc = "mirror"
    /\ pc' = "cleanup"
    /\ \E conn \in BOOLEAN, saved \in BOOLEAN :
       LET current_book_data_from_db ==
               get_book_by_hash(books_collection, conn, current_book_hash)
       IN  /\ saved => current_book_data_from_db # NoneDict
           /\ metadata_json' =
                  IF saved
                  THEN Put(metadata_json, current_book_hash,
                           save_local_metadata_json(
                               Get(metadata_json, current_book_hash, EmptyDict),
                               current_book_data_from_db,
                               last.scan_info))
                  ELSE metadata_json
           /\ Logged([event |-> "mirror",
                      read |-> current_book_data_from_db # NoneDict,
                      saved |-> saved])
    /\ UNCHANGED <<date_index, storeVars, inbox, processed_dir, files_to_process, idx,
                   session_processed_aliases, localVars>>

\* scan_path.unlink() of the original, inside try/except
Cleanup ==
    /\ pc = "cleanup"
    /\ \E removed \in BOOLEAN :
          /\ Unlink(scan_path, removed)
          /\ Logged([event |-> "cleanup", removed |-> removed])
    /\ Continue
    /\ UNCHANGED <<date_index, storeVars, processed_dir, metadata_json, files_to_process,
                   idx, session_processed_aliases>>

NextBatch ==
    \/ ForEnd
    \/ RejectName
    \/ AcceptName
    \/ KnownAlias
    \/ NewAlias
    \/ CopyScan
    \/ Ocr
    \/ Persist
    \/ Mirror
    \/ Cleanup

SpecBatch == InitBatch /\ [][NextBatch]_vars

(***************************************************************************)
(* SpecSelect: the head of Scanner.process_scans_batch, which lists the    *)
(* inbox with _get_files_to_process and returns when the list is empty.    *)
(***************************************************************************)
\* the labels of config.PAGE_TYPE_MAPPING as text
Text(label) ==
    CASE label = "Wstep" -> <<"W", "s", "t", "e_ogonek", "p">>
      [] label = "Strona Glowna" ->
             <<"S", "t", "r", "o", "n", "a", " ", "G", "l_stroke", "o_acute",
               "w", "n", "a">>
      [] label = "Mapa" -> <<"M", "a", "p", "a">>
      [] label = "Ilustracja" ->
             <<"I", "l", "u", "s", "t", "r", "a", "c", "j", "a">>
      [] label = "Tabela" -> <<"T", "a", "b", "e", "l", "a">>
      [] label = "Okladka" -> <<"O", "k", "l_stroke", "a", "d", "k", "a">>
      [] label = "Grzbiet" -> <<"G", "r", "z", "b", "i", "e", "t">>
      [] label = "Obwoluta" -> <<"O", "b", "w", "o", "l", "u", "t", "a">>
      [] label = "Wyklejka" -> <<"W", "y", "k", "l", "e", "j", "k", "a">>
      [] label = "Pusta Strona" ->
             <<"P", "u", "s", "t", "a", " ", "S", "t", "r", "o", "n", "a">>

\* config.PAGE_TYPE_MAPPING.values()
values(mapping) == {Text(mapping[k]) : k \in DOMAIN mapping}

\* Path.suffix: the name from its last dot on, empty when the name has no
\* dot or the last dot opens or closes the name
suffix(path) ==
    LET dots == {i \in 1..Len(path) : path[i] = "."}
        i == CHOOSE d \in dots : \A e \in dots : e <= d
    IN  IF dots = {} THEN <<>>
        ELSE IF 1 < i /\ i < Len(path) THEN SubSeq(path, i, Len(path))
        ELSE <<>>

\* the entries config.SCAN_DIR may hold: scans of every supported
\* extension, an image whose name the pattern rejects, a text file, a name
\* without extension, a name whose extension spells a page type label, and
\* a subdirectory
DirEntries ==
    {<<"B", "_", "s", "1", ".", "j", "p", "g">>,
     <<"B", "_", "x", "1", ".", "j", "p", "g">>,
     <<"B", "_", "s", "2", ".", "J", "P", "G">>,
     <<"B", "_", "m", "1", ".", "j", "p", "e", "g">>,
     <<"C", "_", "w", "1", ".", "p", "n", "g">>,
     <<"C", "_", "t", "1", ".", "t", "i", "f">>,
     <<"C", "_", "i", "1", ".", "t", "i", "f", "f">>,
     <<"n", ".", "t", "x", "t">>,
     <<"R", "E", "A", "D", "M", "E">>,
     <<"a", ".", "M", "a", "p", "a">>,
     <<"d", ".", "j", "p", "g">>}

\* the entry of that name is a directory
Subdirectories == {<<"d", ".", "j", "p", "g">>}

\* Path.is_file()
is_file(path) == path \notin Subdirectories

\* Scanner._get_files_to_process over the entries of SCAN_DIR
get_files_to_process(entries) ==
    sorted({path \in entries :
               /\ is_file(path)
               /\ lower(suffix(path)) \in values(PAGE_TYPE_MAPPING)})

InitSelect ==
    /\ books_collection \in InitialStores
    /\ now = 0
    /\ last = NoCall
    /\ inbox \in SUBSET DirEntries
    /\ processed_dir = EmptyDict
    /\ metadata_json = EmptyDict
    /\ date_index = NoFile
    /\ files_to_process = <<>>
    /\ idx = 0
    /\ pc = "start"
    /\ session_processed_aliases = EmptyDict
    /\ parsed_scan_info = NoneDict
    /\ current_book_hash = NoneStr
    /\ current_book_meta = NoneDict
    /\ ocr_text = <<>>
    /\ log = <<>>

\* files_to_process = self._get_files_to_process(); return if it is empty
SelectFiles ==
    /\ pc = "start"
    /\ files_to_process' = get_files_to_process(inbox)
    /\ pc' = IF files_to_process' = <<>> THEN "done" ELSE "for"
    /\ UNCHANGED <<storeVars, diskVars, idx, session_processed_aliases,
                   localVars, log>>

NextSelect == SelectFiles

SpecSelect == InitSelect /\ [][NextSelect]_vars

(***************************************************************************)
(* SpecParse: utils.parse_scanned_page_filename applied to a file name,    *)
(* then to the name rebuilt from the descriptor it returned, or to a name  *)
(* that differs from the first in its type letter and its digits.          *)
(***************************************************************************)
\* what may stand before the page suffix: a plain alias, aliases with
\* underscores, with a segment that reads as a page suffix, with a whole
\* scan name inside, a lone underscore, an alias with a line break, nothing
AliasParts ==
    {<<"A">>, <<"A", "_", "b">>, <<"A", "_", "s", "1">>,
     <<"A", "_", "s", "1", ".", "j", "p", "g">>, <<"_">>, <<"A", "\n", "b">>,
     <<>>}

\* what may stand for the type letter: the ten codes, a capital, a letter
\* that is no code, the long s, nothing
TypeParts ==
    {<<"w">>, <<"s">>, <<"i">>, <<"m">>, <<"t">>, <<"c">>, <<"g">>, <<"o">>,
     <<"e">>, <<"b">>, <<"W">>, <<"x">>, <<"long_s">>, <<>>}

\* the type letters of the second name
VariantTypes == {<<"s">>, <<"S">>, <<"W">>}

\* what may stand for the page number
DigitParts ==
    {<<"1">>, <<"0", "1">>, <<"0", "0", "0", "1">>, <<"0", "0", "0", "0", "1">>,
     <<"1", "0">>, <<"1", "2", "3", "4", "5">>, <<"arabic_1">>, <<>>}

\* what may stand for the extension
ExtParts ==
    {<<"j", "p", "g">>, <<"J", "P", "G">>, <<"J", "p", "e", "g">>,
     <<"p", "n", "g">>, <<"t", "i", "f">>, <<"T", "I", "F", "F">>,
     <<"t", "dotless_i", "f">>, <<"j", "p", "g", "\n">>, <<"t", "x", "t">>,
     <<>>}

\* the names the parser is given, by their parts
NameParts ==
    [alias : AliasParts, underscore : {<<"_">>, <<>>}, type : TypeParts,
     digits : DigitParts, dot : {<<".">>, <<>>}, ext : ExtParts]

\* the file name of these parts
NameOf(parts) ==
    parts.alias \o parts.underscore \o parts.type \o parts.digits
        \o parts.dot \o parts.ext

\* the file name a descriptor stands for
BuiltName(d) ==
    d.alias \o <<"_">> \o d.page_raw_number_str \o d.original_extension

InitParse ==
    /\ books_collection = <<>>
    /\ now = 0
    /\ \E parts \in NameParts :
          last = [op |-> "input", parts |-> parts, fname |-> NameOf(parts)]
    /\ NoBatch

\* parsed_info = parse_scanned_page_filename(fname)
ParseName ==
    /\ last.op = "input"
    /\ last' = [op |-> "parse", parts |-> last.parts, fname |-> last.fname,
                ret |-> parse_scanned_page_filename(last.fname)]
    /\ UNCHANGED <<books_collection, now, diskVars, loopVars>>

\* the name built from the descriptor is parsed in its turn
ParseBuiltName ==
    /\ last.op = "parse" /\ last.ret # NoneDict
    /\ last' = [op |-> "reparse", fname |-> BuiltName(last.ret),
                ret |-> parse_scanned_page_filename(BuiltName(last.ret)),
                first |-> last.ret]
    /\ UNCHANGED <<books_collection, now, diskVars, loopVars>>

\* after a name the parser took, a name with another type letter and
\* other digits is parsed
ParseVariant ==
    /\ last.op = "parse" /\ last.ret # NoneDict
    /\ \E type \in VariantTypes, digits \in DigitParts :
       \E fname \in {NameOf([last.parts EXCEPT !.type = type,
                                               !.digits = digits])} :
          last' = [op |-> "variant", fname |-> fname,
                   ret |-> parse_scanned_page_filename(fname),
                   first_fname |-> last.fname, first |-> last.ret]
    /\ UNCHANGED <<books_collection, now, diskVars, loopVars>>

NextParse ==
    \/ ParseName
    \/ ParseBuiltName
    \/ ParseVariant

SpecParse == InitParse /\ [][NextParse]_vars

(***************************************************************************)
(* SpecHash: utils.generate_book_hash applied to two metadata records.     *)
(* The records carry the four identity fields, or lack some of them, and   *)
(* may carry a field the hash does not read.                               *)
(***************************************************************************)
TitleValues ==
    {<<"A", "b">>, <<" ", "a", "b", " ">>, <<"a", "|", "b">>, <<"a">>,
     <<"o_acute">>, <<"O">>, <<"l_stroke", "a">>, <<>>}

AuthorsValues == {<<"c">>, <<"b", "|", "c">>, <<"C", " ">>}

YearValues == {<<"1">>, <<"2">>}

PubPlaceValues == {<<"W">>, <<>>}

\* the keys a record may have
MetaKeys ==
    {{"title", "authors", "year", "pub_place"},
     {"title", "authors", "year"},
     {"authors", "year", "pub_place"},
     {"title", "authors", "year", "pub_place", "publisher"}}

MetaRecord(keys, title, authors, year, pub_place) ==
    [k \in keys |->
        CASE k = "title" -> title
          [] k = "authors" -> authors
          [] k = "year" -> year
          [] k = "pub_place" -> pub_place
          [] OTHER -> <<"X">>]

MetaRecords ==
    {MetaRecord(keys, title, authors, year, pub_place) :
        keys \in MetaKeys, title \in TitleValues, authors \in AuthorsValues,
        year \in YearValues, pub_place \in PubPlaceValues}

InitHash ==
    /\ books_collection = <<>>
    /\ now = 0
    /\ \E meta1 \in MetaRecords, meta2 \in MetaRecords :
           last = [op |-> "input", meta1 |-> meta1, meta2 |-> meta2]
    /\ NoBatch

\* hash1 = generate_book_hash(book_meta1); hash2 = generate_book_hash(...)
HashRecords ==
    /\ last.op = "input"
    /\ last' = [op |-> "hash", meta1 |-> last.meta1, meta2 |-> last.meta2,
                hash1 |-> generate_book_hash(last.meta1),
                hash2 |-> generate_book_hash(last.meta2)]
    /\ UNCHANGED <<books_collection, now, diskVars, loopVars>>

NextHash == HashRecords

SpecHash == InitHash /\ [][NextHash]_vars

(***************************************************************************)
(* SpecRerun: process_scans_batch run on an empty store, and run again on  *)
(* the same file names once the first run has stored every file.           *)
(***************************************************************************)
\* the largest batch that is run twice
MaxRerunFiles == 1

\* the batches of the first run: each file alone, and two pages of alias B
RerunBatches ==
    {{f} : f \in ScanNames} \cup
    {{<<"B", "_", "s", "1", ".", "j", "p", "g">>,
      <<"B", "_", "s", "2", ".", "j", "p", "g">>}}

InitRerun ==
    /\ books_collection = <<>>
    /\ now = 0
    /\ last = NoCall
    /\ \E files \in RerunBatches :
          /\ inbox = files
          /\ files_to_process = sorted(files)
    /\ processed_dir = EmptyDict
    /\ metadata_json = EmptyDict
    /\ date_index = NoFile
    /\ idx = 0
    /\ pc = "for"
    /\ session_processed_aliases = EmptyDict
    /\ parsed_scan_info = NoneDict
    /\ current_book_hash = NoneStr
    /\ current_book_meta = NoneDict
    /\ ocr_text = <<>>
    /\ log = <<>>

\* the batch that ended stored every file of its work list
StoredAll ==
    \A n \in 1..Len(files_to_process) :
    \E i \in 1..Len(log) :
        log[i] = [file |-> files_to_process[n], event |-> "upsert",
                  ret |-> "True"]

\* the metadata typed for each alias in the batch that ended
TypedAnswers ==
    [alias \in DOMAIN session_processed_aliases |->
        log[CHOOSE i \in 1..Len(log) :
                /\ log[i].event = "asked"
                /\ ParsedScanName[log[i].file].alias = alias].meta]

\* the same files are put in the inbox again and process_scans_batch is
\* called again: the session map starts empty, the store and the
\* directories are as the first run left them
Rerun ==
    /\ pc = "done"
    /\ log # <<>> /\ log[1].event # "rerun"
    /\ Len(files_to_process) <= MaxRerunFiles
    /\ StoredAll
    /\ inbox' = {files_to_process[n] : n \in 1..Len(files_to_process)}
    /\ idx' = 0
    /\ pc' = "for"
    /\ session_processed_aliases' = EmptyDict
    /\ last' = NoCall
    /\ log' = <<[file |-> <<>>, event |-> "rerun",
                 store |-> books_collection, answers |-> TypedAnswers]>>
    /\ UNCHANGED <<date_index, books_collection, now, processed_dir, metadata_json,
                   files_to_process, localVars>>

NextRerun ==
    \/ NextBatch
    \/ Rerun

SpecRerun == InitRerun /\ [][NextRerun]_vars

(***************************************************************************)
(* SpecBatchFair: one run of the loop on an empty store, under the         *)
(* scheduling of sequential code: a step of the body that can be taken is  *)
(* taken, and the call of upsert_book_and_scan returns or raises (Persist  *)
(* can be taken whenever the loop is at the call, so its weak fairness is  *)
(* that the loop does not stay there for ever).                            *)
(***************************************************************************)
CallsReturn ==
    /\ WF_vars(ForEnd) /\ WF_vars(RejectName) /\ WF_vars(AcceptName)
    /\ WF_vars(KnownAlias) /\ WF_vars(NewAlias)
    /\ WF_vars(CopyScan) /\ WF_vars(Ocr)
    /\ []<>(pc # "persist")
    /\ WF_vars(Mirror) /\ WF_vars(Cleanup)

SpecBatchFair == InitRerun /\ [][NextBatch]_vars /\ CallsReturn

(***************************************************************************)
(* date_indexer.py: the timeline index built from the metadata.json files  *)
(* of data/processed.                                                      *)
(***************************************************************************)
\* the lines of date_indexer.py the Python compiler rejects: the string
\* literal of the print call of line 82 has no opening quote, so neither
\* "python date_indexer.py" nor "import date_indexer" runs a statement of
\* the file
SyntaxErrors == {82}

\* s[:n]
Slice(s, n) == SubSeq(s, 1, IF Len(s) < n THEN Len(s) ELSE n)

\* the entry build_date_index makes of one dated mention of one scan
index_entry(book_hash, data, scan, dt) ==
    [date_parsed |-> dt.parsed,
     date_text |-> Get(dt, "text", <<>>),
     book_hash |-> book_hash,
     book_title |-> Get(data, "tytul", <<>>),
     book_author |-> Get(data, "autor", <<>>),
     scan_path |-> Get(scan, "path", <<>>),
     ocr_snippet |-> Slice(Get(scan, "ocr", <<>>), 80) \o <<".", ".", ".">>]

\* the inner loop: the entries of the mentions of one scan, from the n-th
\* on; a mention without "parsed", or with an empty one, is passed over
RECURSIVE scan_entries(_, _, _, _)
scan_entries(book_hash, data, scan, n) ==
    LET dates == Get(scan, "extracted_dates", <<>>)
    IN  IF n > Len(dates) THEN <<>>
        ELSE (IF Get(dates[n], "parsed", <<>>) = <<>> THEN <<>>
              ELSE <<index_entry(book_hash, data, scan, dates[n])>>)
             \o scan_entries(book_hash, data, scan, n + 1)

\* the middle loop: the entries of the scans of one book, from the n-th on
RECURSIVE book_entries(_, _, _)
book_entries(book_hash, data, n) ==
    LET scans == Get(data, "scans", <<>>)
    IN  IF n > Len(scans) THEN <<>>
        ELSE scan_entries(book_hash, data, scans[n], 1)
             \o book_entries(book_hash, data, n + 1)

\* the outer loop over PROCESSED_DIR.iterdir(), in the order the directory
\* is listed: a folder without metadata.json is passed over
RECURSIVE collected(_, _)
collected(folders, files) ==
    IF folders = <<>> THEN <<>>
    ELSE (IF Head(folders) \notin DOMAIN files THEN <<>>
          ELSE book_entries(Head(folders), files[Head(folders)], 1))
         \o collected(Tail(folders), files)

\* one entry put in its place in a sorted list: before the first entry
\* whose date_parsed is greater, strings being compared as str does
insert(sorted_index, e) ==
    LET later == {i \in 1..Len(sorted_index) :
                     PathLess(e.date_parsed, sorted_index[i].date_parsed)}
        k == IF later = {} THEN Len(sorted_index) + 1 ELSE Min(later)
    IN  SubSeq(sorted_index, 1, k - 1) \o <<e>>
            \o SubSeq(sorted_index, k, Len(sorted_index))

\* index.sort(key=lambda e: e["date_parsed"]): a stable sort
RECURSIVE sort(_)
sort(index) ==
    IF index = <<>> THEN <<>>
    ELSE insert(sort(SubSeq(index, 1, Len(index) - 1)), index[Len(index)])

build_date_index(folders, files) == sort(collected(folders, files))

\* save_date_index(index): the list is dumped over the file
save_date_index(index) == FileOf(index)

\* main(), given what outputs/date_index.json is before the run: what the
\* file is after it
main(folders, files, file) ==
    LET built == build_date_index(folders, files)
    IN  IF built = <<>> THEN file ELSE save_date_index(built)

(***************************************************************************)
(* SpecIndex: date_indexer.py run, and build_date_index called, on a       *)
(* data/processed whose metadata.json files were written by                *)
(* save_local_metadata_json and then given dated mentions.                 *)
(***************************************************************************)
\* the store and the metadata.json of book m after the pages named in fs
\* were upserted and mirrored one by one
RECURSIVE Ingested(_, _)
Ingested(m, fs) ==
    IF fs = <<>> THEN [coll |-> <<>>, data |-> EmptyDict]
    ELSE LET before == Ingested(m, SubSeq(fs, 1, Len(fs) - 1))
             scan == ApiScan(m, fs[Len(fs)], <<"x">>)
             coll == upsert_book_and_scan(before.coll, TRUE, m, scan,
                                          0, 0, 0, "none").coll
         IN  [coll |-> coll,
              data |-> save_local_metadata_json(
                           before.data, find_one(coll, HashOfMeta[m]), scan)]

\* the dated mentions a scan may be given: four with a parsed date, two of
\* them of the same year, one whose date is empty, one without the key
Mention(parsed, text) == [parsed |-> parsed, text |-> text]

MentionLists ==
    LET a == Mention(<<"1", "9", "4", "5">>, <<"a">>)
        b == Mention(<<"1", "9", "2", "0">>, <<"b">>)
        c == Mention(<<"1", "9", "8", "9">>, <<"c">>)
        d == Mention(<<"1", "9", "4", "5">>, <<"d">>)
        e == Mention(<<>>, <<"e">>)
        f == [text |-> <<"f">>]
    IN  {<<>>, <<a>>, <<b>>, <<c>>, <<d>>, <<e>>, <<f>>,
         <<a, b>>, <<a, d>>, <<d, a>>, <<c, e>>, <<b, c>>}

\* a metadata.json whose scans were given these lists of mentions
WithMentions(data, lists) ==
    Put(data, "scans",
        [j \in 1..Len(data.scans) |->
            Put(data.scans[j], "extracted_dates", lists[j])])

\* the two books of the runs: one of two pages, one of one page
TwoPageBook ==
    Ingested(BookMeta(<<"O_ACUTE">>, <<>>),
             <<<<"B", "_", "s", "1", ".", "j", "p", "g">>,
               <<"B", "_", "s", "2", ".", "j", "p", "g">>>>).data

OnePageBook ==
    Ingested(PartialMeta, <<<<"B", "_", "s", "1", ".", "j", "p", "g">>>>).data

\* what data/processed may hold of metadata.json files, by folder name
MirrorStates ==
    {EmptyDict}
    \cup {(TwoPageBook.book_hash :> WithMentions(TwoPageBook, <<l1, l2>>)) :
             l1 \in MentionLists, l2 \in MentionLists}
    \cup {(TwoPageBook.book_hash :> WithMentions(TwoPageBook, <<l1, l2>>))
          @@ (OnePageBook.book_hash :> WithMentions(OnePageBook, <<l3>>)) :
             l1 \in MentionLists, l2 \in MentionLists, l3 \in MentionLists}

\* a folder that holds the copy of a scan and no metadata.json
OrphanCopy ==
    copy2(EmptyDict, <<"C", "_", "m", "1", ".", "J", "P", "G">>,
          destination_path(<<"#", "d">>,
              ParsedScanName[<<"C", "_", "m", "1", ".", "J", "P", "G">>]))

\* an index file left by an earlier run
EarlierIndex ==
    FileOf(<<[date_parsed |-> <<"1", "9", "0", "0">>, date_text |-> <<"z">>,
              book_hash |-> <<"#", "d">>, book_title |-> <<>>,
              book_author |-> <<>>, scan_path |-> <<>>,
              ocr_snippet |-> <<".", ".", ".">>]>>)

\* book_folder.name of a path under PROCESSED_DIR
FolderOf(path) ==
    SubSeq(path, 1, Min({i \in 1..Len(path) : path[i] = "/"}) - 1)

\* the folders of PROCESSED_DIR
Folders ==
    DOMAIN metadata_json \cup {FolderOf(path) : path \in DOMAIN processed_dir}

\* the orders in which iterdir() may list a set of folders
Orders(S) ==
    {q \in [1..Cardinality(S) -> S] :
        \A i, j \in 1..Cardinality(S) : q[i] = q[j] => i = j}

InitIndex ==
    /\ books_collection = <<>>
    /\ now = 0
    /\ last = [op |-> "none"]
    /\ inbox = {}
    /\ processed_dir \in {EmptyDict, OrphanCopy}
    /\ metadata_json \in MirrorStates
    /\ date_index \in {NoFile, EarlierIndex}
    /\ files_to_process = <<>>
    /\ idx = 0
    /\ pc = "idle"
    /\ session_processed_aliases = EmptyDict
    /\ parsed_scan_info = NoneDict
    /\ current_book_hash = NoneStr
    /\ current_book_meta = NoneDict
    /\ ocr_text = <<>>
    /\ log = <<>>

\* python date_indexer.py: the file is compiled, then main() runs
RunIndexer ==
    \E folders \in Orders(Folders) :
       /\ date_index' = IF SyntaxErrors # {} THEN date_index
                        ELSE main(folders, metadata_json, date_index)
       /\ last' = [op |-> "main", folders |-> folders,
                   raised |-> SyntaxErrors # {}]
       /\ UNCHANGED <<books_collection, now, inbox, processed_dir,
                      metadata_json, loopVars>>

\* import date_indexer; date_indexer.build_date_index()
CallBuild ==
    \E folders \in Orders(Folders) :
       /\ last' = [op |-> "build", folders |-> folders,
                   raised |-> SyntaxErrors # {},
                   index |-> IF SyntaxErrors # {} THEN <<>>
                             ELSE build_date_index(folders, metadata_json)]
       /\ UNCHANGED <<books_collection, now, diskVars, loopVars>>

NextIndex ==
    \/ RunIndexer
    \/ CallBuild

SpecIndex == InitIndex /\ [][NextIndex]_vars

(***************************************************************************)
(* Vocabulary of the properties of the store.                              *)
(***************************************************************************)
\* the scans array of a document (empty when it has none)
Scans(doc) == Get(doc, "scans", <<>>)

\* the raw page tokens of a document's scans, in array order
Tokens(doc) == [j \in 1..Len(Scans(doc)) |-> Scans(doc)[j].page_raw_number_str]

\* the distinct elements of a sequence, in order of first occurrence
RECURSIVE FirstOccurrences(_)
FirstOccurrences(seq) ==
    IF seq = <<>> THEN <<>>
    ELSE LET front == SubSeq(seq, 1, Len(seq) - 1)
             x == seq[Len(seq)]
         IN  IF \E j \in 1..Len(front) : front[j] = x
             THEN FirstOccurrences(front)
             ELSE Append(FirstOccurrences(front), x)

IsPrefix(a, b) == Len(a) <= Len(b) /\ SubSeq(b, 1, Len(a)) = a

\* this step is a call of upsert_book_and_scan
UpsertStep == last'.n = last.n + 1 /\ last'.op = "upsert"

\* ... that returned True
UpsertSucceeds == UpsertStep /\ last'.ret = "True"

\* the identity the call of this step writes under
StepHash == generate_book_hash(last'.book_meta)

\* the scan entry the call of this step saves
StepScan == scan_info_to_save(last'.scan_info, last'.processed_at)

\* the book-level bibliographic fields, and what upsert stores for a field
\* the metadata record does not hold
BookFields ==
    {"title", "authors", "year", "pub_place", "publisher", "num_pages",
     "notes", "keywords", "maps_present", "illustrations_present",
     "tables_present"}

FieldDefault(k) ==
    CASE k = "num_pages" -> NoneNumber
      [] k \in {"maps_present", "illustrations_present", "tables_present"} -> FALSE
      [] OTHER -> <<>>

\* a document, or a collection, without the two timestamps that every
\* upsert refreshes
WithoutTimestamps(doc) ==
    [k \in DOMAIN doc \ {"last_updated_book_at"} |->
        IF k = "scans"
        THEN [j \in 1..Len(doc.scans) |-> Pop(doc.scans[j], "processed_at")]
        ELSE doc[k]]

StoreWithoutTimestamps(coll) ==
    [i \in 1..Len(coll) |-> WithoutTimestamps(coll[i])]

(***************************************************************************)
(* Properties of upsert_book_and_scan, checked under Spec.                 *)
(***************************************************************************)
\* C1: after any sequence of upsert_book_and_scan calls, every book
\* document holds at most one scan entry per page_raw_number_str.
C1_OneEntryPerToken ==
    \A i \in 1..Len(books_collection) :
        \A j, k \in 1..Len(Scans(books_collection[i])) :
            Tokens(books_collection[i])[j] = Tokens(books_collection[i])[k]
                => j = k

\* C2: a successful upsert that repeats the metadata and the scan payload
\* of the successful upsert just before it leaves the store as that first
\* upsert left it, the processed_at and last_updated_book_at timestamps
\* apart.
C2_RepeatChangesNothing ==
    [][(/\ UpsertSucceeds
        /\ last.op = "upsert" /\ last.ret = "True"
        /\ last'.book_meta = last.book_meta
        /\ last'.scan_info = last.scan_info)
       => StoreWithoutTimestamps(books_collection')
              = StoreWithoutTimestamps(books_collection)]_vars

\* C3: a successful upsert of a scan whose token the aggregate already
\* holds replaces that entry where it stands by the new payload, and leaves
\* the number, the order and the contents of the other entries as they were.
C3_ReplacedInPlace ==
    [][UpsertSucceeds =>
         \A book_hash \in {StepHash}, scan \in {StepScan} :
         \A i \in 1..Len(books_collection) :
            (/\ books_collection[i].book_hash = book_hash
             /\ ScanIndex(books_collection[i], scan.page_raw_number_str) # 0)
            => Scans(books_collection'[i])
                   = [Scans(books_collection[i]) EXCEPT
                         ![ScanIndex(books_collection[i],
                                     scan.page_raw_number_str)] = scan]]_vars

\* C4: a successful upsert of a scan whose token the aggregate does not
\* hold appends the entry after all the entries there are; and no upsert
\* changes the order in which the tokens of an aggregate first occur, so
\* the collection lists the tokens in the order of their first upsert.
C4_AppendedInOrder ==
    [][/\ \A i \in 1..Len(books_collection) :
            /\ i <= Len(books_collection')
            /\ IsPrefix(FirstOccurrences(Tokens(books_collection[i])),
                        FirstOccurrences(Tokens(books_collection'[i])))
       /\ UpsertSucceeds =>
            \A book_hash \in {StepHash}, scan \in {StepScan} :
            \A before \in {find_one(books_collection, book_hash)} :
            \A after \in {find_one(books_collection', book_hash)} :
                (before = NoneDict
                 \/ ScanIndex(before, scan.page_raw_number_str) = 0)
                => Scans(after)
                       = Append(IF before = NoneDict THEN <<>> ELSE Scans(before),
                                scan)]_vars

\* C4 witness: page s0002 was appended behind page s0001 by the last call.
C4_Witness ==
    /\ last.op = "upsert" /\ last.ret = "True"
    /\ last.scan_info.page_raw_number_str = <<"s", "0", "0", "0", "2">>
    /\ \E i \in 1..Len(books_collection) :
          /\ Tokens(books_collection[i])
                 = << <<"s", "0", "0", "0", "1">>, <<"s", "0", "0", "0", "2">> >>
          /\ Scans(books_collection[i])[2].processed_at = 1
          /\ Scans(books_collection[i])[1].processed_at = 0

\* C5: a successful upsert on a store that holds one aggregate,
\* whatever bibliographic fields it changes (title, authors, year and place
\* of publication included), updates that aggregate: its identity stays
\* and no second aggregate appears.
C5_IdentityNeverRecomputed ==
    [][(UpsertSucceeds /\ Len(books_collection) = 1)
       => /\ Len(books_collection') = 1
          /\ books_collection'[1].book_hash = books_collection[1].book_hash]_vars

C7_CreatedAtNeverChanges ==
    [][/\ \A i \in 1..Len(books_collection) :
            /\ i <= Len(books_collection')
            /\ books_collection'[i].created_at = books_collection[i].created_at
       /\ \A i \in 1..Len(books_collection') :
            "created_at" \in DOMAIN books_collection'[i]]_vars

\* C7 witness: an aggregate created at reading 0 was upserted again at
\* reading 1 and still says it was created at 0.
C7_Witness ==
    /\ last.op = "upsert" /\ last.ret = "True" /\ last.n = 2
    /\ \E i \in 1..Len(books_collection) :
          /\ books_collection[i].book_hash = generate_book_hash(last.book_meta)
          /\ books_collection[i].created_at = 0
          /\ books_collection[i].last_updated_book_at = 1

(***************************************************************************)
(* Vocabulary of the properties of the batch.                              *)
(***************************************************************************)
\* the batch has returned, or an exception has left it
BatchOver == pc \in {"done", "aborted"}

\* the loop body has started on the file
Visited(f) ==
    \E i \in 1..Len(log) :
        log[i].file = f /\ log[i].event \in {"parsed", "rejected"}

\* upsert_book_and_scan was called for the file
PersistAttempted(f) ==
    \E i \in 1..Len(log) : log[i].file = f /\ log[i].event = "upsert"

\* and returned True
PersistSucceeded(f) ==
    \E i \in 1..Len(log) :
        log[i].file = f /\ log[i].event = "upsert" /\ log[i].ret = "True"

\* the files this step removes from the inbox whose names the pattern accepts
RemovedOriginals ==
    {f \in inbox \ inbox' : parse_scanned_page_filename(f) # NoneDict}

\* C8: an original with a valid name leaves the inbox only if
\* upsert_book_and_scan succeeded for it, and when the batch is over every
\* file whose persist step did not succeed is still in the inbox.
C8_RemovedOnlyIfPersisted ==
    /\ [][\A f \in RemovedOriginals : PersistSucceeded(f)]_vars
    /\ [](BatchOver =>
             \A f \in ScanNames :
                 (PersistAttempted(f) /\ ~PersistSucceeded(f)) => f \in inbox)

\* C9: when a step removes an original with a valid name from the inbox,
\* the directory of the identity recorded for its alias already holds a
\* copy of it under {identity}_{rawPageToken}{ext}.
C9_CopiedBeforeRemoved ==
    [][\A f \in RemovedOriginals :
          LET parsed == parse_scanned_page_filename(f)
              identity == Get(session_processed_aliases, parsed.alias, NoneStr)
              copy == identity \o <<"/">> \o identity \o <<"_">>
                          \o parsed.page_raw_number_str
                          \o parsed.original_extension
          IN  /\ identity # NoneStr
              /\ copy \in DOMAIN processed_dir
              /\ processed_dir[copy] = [copy_of |-> f]]_vars

\* C9 witness: the batch is back at the head of its loop, the original of
\* a page of alias B is gone from the inbox, and its copy is in the
\* directory of the identity B was resolved to.
C9_Witness ==
    /\ pc = "for"
    /\ \E f \in ScanNames \ inbox :
          /\ log # <<>> /\ log[Len(log)] =
                 [file |-> f, event |-> "cleanup", removed |-> TRUE]
          /\ parse_scanned_page_filename(f) # NoneDict
          /\ \E path \in DOMAIN processed_dir :
                processed_dir[path] = [copy_of |-> f]

\* C10: whatever the persist step of a file did, the batch is not over
\* before every file of the work list has been visited.
C10_EveryFileVisited ==
    BatchOver => \A i \in 1..Len(files_to_process) : Visited(files_to_process[i])

(***************************************************************************)
(* Properties of the steps of the loop body, checked under SpecBatch.      *)
(***************************************************************************)
\* the log holds an entry of this event for the file
HasEvent(f, e) ==
    \E i \in 1..Len(log) : log[i].file = f /\ log[i].event = e

\* the file was skipped for this reason
SkippedFor(f, why) ==
    \E i \in 1..Len(log) :
        log[i].file = f /\ log[i].event = "skipped" /\ log[i].why = why

\* the last thing the batch did
LastLogged == log[Len(log)]

JustLogged(e) ==
    /\ Len(log') = Len(log) + 1
    /\ log'[Len(log')].event = e

\* the events of the loop body past the parse of the name
BodyEvents ==
    {"parsed", "asked", "resolved", "skipped", "copied", "ocr", "upsert",
     "mirror", "cleanup"}

\* C12 as the spec words it: a file whose name was rejected is no longer
\* in the inbox.
C12_RejectedFileRemoved ==
    \A f \in ScanNames : HasEvent(f, "rejected") => f \notin inbox

\* C12: the step that rejects a name takes the file out of the inbox unless
\* the unlink raised (then the inbox is as it was), leaves the store, the
\* output directory, the mirror and the alias map untouched and returns to
\* the head of the loop; a rejected file never enters the loop body (no
\* prompt, no copy, no OCR, no upsert) and, once unlinked, stays away.
C12_RejectedFileDiscarded ==
    /\ [](\A f \in ScanNames :
             HasEvent(f, "rejected")
             => /\ \A e \in BodyEvents : ~HasEvent(f, e)
                /\ \A path \in DOMAIN processed_dir :
                      processed_dir[path] # [copy_of |-> f]
                /\ f \in inbox
                      => \E i \in 1..Len(log) :
                            log[i] = [file |-> f, event |-> "rejected",
                                      removed |-> FALSE])
    /\ [][JustLogged("rejected")
            => /\ UNCHANGED <<storeVars, processed_dir, metadata_json,
                              session_processed_aliases, files_to_process>>
               /\ pc = "for" /\ pc' = "for" /\ idx' = idx + 1
               /\ log'[Len(log')].file = files_to_process[idx']
               /\ inbox' = IF log'[Len(log')].removed
                           THEN inbox \ {files_to_process[idx']}
                           ELSE inbox]_vars

\* C12 witness: the first file of a batch of two was rejected and is gone,
\* nothing was asked, copied or stored for it, and the second file, a valid
\* name, has been taken up.
C12_Witness ==
    /\ Len(files_to_process) = 2 /\ idx = 2
    /\ log[1] = [file |-> files_to_process[1], event |-> "rejected",
                 removed |-> TRUE]
    /\ files_to_process[1] \notin inbox
    /\ HasEvent(files_to_process[2], "asked")
    /\ DOMAIN session_processed_aliases = {ParsedScanName[files_to_process[2]].alias}

\* the user was asked for the metadata at this file and gave none
Declined(f) ==
    \E i \in 1..Len(log) :
        log[i] = [file |-> f, event |-> "asked", answered |-> FALSE]

\* the alias is marked abandoned in the session map
Abandoned(alias) ==
    /\ alias \in DOMAIN session_processed_aliases
    /\ session_processed_aliases[alias] = NoneStr

\* the file is the one the loop body is working on
InBody(f) == idx > 0 /\ files_to_process[idx] = f /\ pc \notin {"for", "done"}

\* C13: a file at which the metadata was declined leaves its alias marked
\* abandoned for the rest of the batch, and every file of an abandoned
\* alias the loop has dealt with was skipped: it was not copied, OCR'd or
\* persisted, nothing was mirrored for it, and it is still in the inbox.
C13_DeclinedAliasSkipped ==
    \A i \in 1..idx :
        LET f == files_to_process[i]
            parsed == ParsedScanName[f]
        IN  /\ Declined(f) => Abandoned(parsed.alias)
            /\ (parsed # NoneDict /\ Abandoned(parsed.alias) /\ ~InBody(f))
                  => /\ Declined(f) \/ SkippedFor(f, "cancelled")
                     /\ \A e \in {"copied", "ocr", "upsert", "mirror", "cleanup"} :
                           ~HasEvent(f, e)
                     /\ \A path \in DOMAIN processed_dir :
                           processed_dir[path] # [copy_of |-> f]
                     /\ f \in inbox

\* C13 witness: two files of one alias; the metadata was declined at the
\* first, the second was skipped without a prompt, both are in the inbox
\* and nothing was stored.
C13_Witness ==
    /\ Len(files_to_process) = 2 /\ idx = 2 /\ pc = "for"
    /\ Declined(files_to_process[1])
    /\ SkippedFor(files_to_process[2], "cancelled")
    /\ ~HasEvent(files_to_process[2], "asked")
    /\ inbox = {files_to_process[1], files_to_process[2]}
    /\ last = NoCall /\ processed_dir = EmptyDict

\* the validly-named files of the work list, and their aliases
ValidNames == {f \in ScanNames : ParsedScanName[f] # NoneDict}

Aliases == {ParsedScanName[f].alias : f \in ValidNames}

\* the positions of the log where the user was asked about this alias
Prompts(alias) ==
    {i \in 1..Len(log) :
        /\ log[i].event = "asked"
        /\ ParsedScanName[log[i].file].alias = alias}

\* the position in the work list of the first validly-named file of the alias
FirstOf(alias) ==
    Min({i \in 1..Len(files_to_process) :
            /\ files_to_process[i] \in ValidNames
            /\ ParsedScanName[files_to_process[i]].alias = alias})

\* the loop is past the identification step of the file at position i
Identified(i) == i < idx \/ (i = idx /\ pc # "resolve")

\* C14: the user is asked about an alias at most once in a batch, at the
\* first validly-named file of the alias, and every validly-named file that
\* is past identification had the prompt only if it is that first file.
C14_AskedOncePerAlias ==
    /\ \A alias \in Aliases :
          /\ Cardinality(Prompts(alias)) <= 1
          /\ \A i \in Prompts(alias) :
                log[i].file = files_to_process[FirstOf(alias)]
    /\ \A i \in 1..idx :
          (files_to_process[i] \in ValidNames /\ Identified(i))
          => (HasEvent(files_to_process[i], "asked")
                <=> i = FirstOf(ParsedScanName[files_to_process[i]].alias))

\* C14 witness: two files of one alias; the user was asked at the first
\* and answered, and the second was resolved from the session map and
\* copied without a prompt.
C14_Witness ==
    /\ Len(files_to_process) = 2 /\ idx = 2
    /\ \E i \in 1..Len(log) :
          /\ log[i].file = files_to_process[1]
          /\ log[i].event = "asked" /\ log[i].answered
    /\ HasEvent(files_to_process[2], "resolved")
    /\ HasEvent(files_to_process[2], "copied")
    /\ ~HasEvent(files_to_process[2], "asked")

\* the user was asked about the alias of this file, and the answer led to
\* the adoption of an aggregate of the store
AliasAdopted(f) ==
    /\ ParsedScanName[f] # NoneDict
    /\ \E i \in 1..Len(log) :
          /\ log[i].event = "asked" /\ log[i].answered /\ log[i].adopted
          /\ ParsedScanName[log[i].file].alias = ParsedScanName[f].alias

\* every scan entry of the old document is at its place in the new one,
\* unchanged unless it is the entry of this token
ScansRetained(old, new, token) ==
    /\ Len(Scans(new)) >= Len(Scans(old))
    /\ \A j \in 1..Len(Scans(old)) :
          /\ Scans(new)[j].page_raw_number_str = Scans(old)[j].page_raw_number_str
          /\ Scans(old)[j].page_raw_number_str # token
                => Scans(new)[j] = Scans(old)[j]

\* C15: when the lookup reaches the store and the store holds an aggregate
\* under the identity the answer resolves to, the alias resolves to that
\* aggregate (its identity is recorded for the alias and its document is
\* the metadata carried on); and the upsert of a file of an adopted alias
\* leaves the number of aggregates as it was and keeps every scan entry
\* the aggregate held, the entry of the file's own token apart.
C15_ExistingAggregateAdopted ==
    [][/\ (JustLogged("asked") /\ log'[Len(log')].answered)
            => \A entry \in {log'[Len(log')]} :
               \A doc \in {find_one(books_collection, entry.book_hash)} :
                  (entry.reached /\ doc # NoneDict)
                  => /\ entry.adopted
                     /\ current_book_hash' = doc.book_hash
                     /\ current_book_meta' = doc
                     /\ session_processed_aliases'[parsed_scan_info.alias]
                            = doc.book_hash
                     /\ pc' = "copy"
                     /\ UNCHANGED books_collection
       /\ (JustLogged("upsert") /\ AliasAdopted(scan_path))
            => \A old \in {find_one(books_collection, current_book_hash)} :
               \A new \in {find_one(books_collection', current_book_hash)} :
                  /\ old # NoneDict /\ new # NoneDict
                  /\ Len(books_collection') = Len(books_collection)
                  /\ ScansRetained(old, new, parsed_scan_info.page_raw_number_str)
      ]_vars

\* C15 witness: the store held the book with pages 1 and 2, the answer at
\* the map of alias C named that book, the aggregate was adopted, and the
\* upsert of the map returned True: one aggregate, now of three scans.
C15_Witness ==
    /\ idx > 0 /\ AliasAdopted(scan_path)
    /\ ParsedScanName[scan_path].page_type_short = <<"m">>
    /\ pc = "mirror"
    /\ Len(books_collection) = 1
    /\ Tokens(books_collection[1])
          = <<<<"s", "0", "0", "0", "1">>, <<"s", "0", "0", "0", "2">>,
              <<"m", "0", "0", "0", "1">>>>

\* the alias has been resolved to an identity in this batch
Resolved(alias) ==
    /\ alias \in DOMAIN session_processed_aliases
    /\ session_processed_aliases[alias] # NoneStr

\* C16: every validly-named file that comes after the first of an alias
\* the batch has resolved goes on to the copy step under the identity
\* recorded for the alias, whatever the state of the store at that moment:
\* it is never skipped.
C16_LaterFilesIngested ==
    \A i \in 1..idx :
        LET f == files_to_process[i]
            alias == ParsedScanName[f].alias
        IN  (/\ f \in ValidNames
             /\ Identified(i)
             /\ i # FirstOf(alias)
             /\ Resolved(alias))
            => /\ ~SkippedFor(f, "not found")
               /\ \E k \in 1..Len(log) :
                     log[k] = [file |-> f, event |-> "resolved",
                               how |-> "session",
                               book_hash |-> session_processed_aliases[alias]]

\* the metadata records the prompt can return, with the identity each
\* derives added as scanner.py adds it
FreshMetas ==
    {Put(handle_book_metadata_input(a[1], a[2]), "book_hash",
         generate_book_hash(handle_book_metadata_input(a[1], a[2]))) :
        a \in {b \in Answers : handle_book_metadata_input(b[1], b[2]) # NoneDict}}

\* C17: when the store does not answer at the first file of an alias and
\* the user supplies the metadata, the alias resolves to the identity
\* derived from that metadata, whatever the store holds: the metadata
\* carried on is the fresh record, the identity is recorded for the alias,
\* the store is not written, and the file goes on to the copy step.
C17_UnreachableStoreDerivesIdentity ==
    [][(JustLogged("asked") /\ log'[Len(log')].answered
            /\ ~log'[Len(log')].reached)
        => /\ ~log'[Len(log')].adopted
           /\ current_book_meta' \in FreshMetas
           /\ current_book_hash' = generate_book_hash(current_book_meta')
           /\ current_book_hash' = current_book_meta'.book_hash
           /\ log'[Len(log')].book_hash = current_book_hash'
           /\ session_processed_aliases'
                  = Put(session_processed_aliases, parsed_scan_info.alias,
                        current_book_hash')
           /\ pc' = "copy"
           /\ UNCHANGED <<storeVars, diskVars, parsed_scan_info, idx>>
      ]_vars

\* C17 witness: the store holds the book the answer names but does not
\* answer; the alias was resolved to the derived identity without adoption
\* and the file has been copied as a page of that identity.
C17_Witness ==
    /\ books_collection = EarlierStore
    /\ idx > 0 /\ pc = "ocr"
    /\ \E i \in 1..Len(log) :
          /\ log[i].file = scan_path /\ log[i].event = "asked"
          /\ log[i].answered /\ ~log[i].reached /\ ~log[i].adopted
          /\ log[i].book_hash = EarlierStore[1].book_hash
    /\ current_book_meta \in FreshMetas
    /\ HasEvent(scan_path, "copied")

\* the extensions of image files the batch is to take
SupportedExtensions ==
    {<<".", "j", "p", "g">>, <<".", "j", "p", "e", "g">>,
     <<".", "p", "n", "g">>, <<".", "t", "i", "f">>,
     <<".", "t", "i", "f", "f">>}

\* the regular files of the inbox with a supported extension
SupportedFiles ==
    {path \in inbox :
        is_file(path) /\ lower(suffix(path)) \in SupportedExtensions}

\* C18: once the inbox has been listed, every regular file of the inbox
\* with a supported extension is in the work list, so the list is empty
\* only when the inbox holds no such file.
C18_SupportedFilesSelected ==
    pc # "start"
    => /\ \A path \in SupportedFiles :
             \E i \in 1..Len(files_to_process) : files_to_process[i] = path
       /\ SupportedFiles # {} => files_to_process # <<>>

\* the inbox holds two image files, one with a name the pattern accepts
\* and one with a name it rejects
MixedPair ==
    \E v \in SupportedFiles, m \in SupportedFiles :
        /\ inbox = {v, m}
        /\ parse_scanned_page_filename(v) # NoneDict
        /\ parse_scanned_page_filename(m) = NoneDict

\* C19: a run over an inbox of one malformed and one valid name does not
\* end with the two files still in the inbox and nothing done for either:
\* the valid one is copied, persisted and removed, the malformed one is
\* discarded.
C19_MixedBatchProcessed ==
    (pc = "done" /\ MixedPair)
    => /\ log # <<>>
       /\ processed_dir # EmptyDict
       /\ last # NoCall

\* the page of the file in hand is front matter (w) or a main page (s)
TextPage == parsed_scan_info.page_type_short \in {<<"w">>, <<"s">>}

\* the step wrote a text file into the output directory
SidecarWritten ==
    \E path \in DOMAIN processed_dir' :
        /\ "text" \in DOMAIN processed_dir'[path]
        /\ path \notin DOMAIN processed_dir
              \/ processed_dir'[path] # processed_dir[path]

\* C20: the OCR engine is called only for a page of type w or s. For a
\* page of any other type the OCR step calls nothing, writes no file and
\* leaves ocr_text empty; the upsert of the page is handed an empty
\* ocr_text and, when it returns True, the aggregate holds the page with
\* an empty ocr_text. No step but the OCR of a w or s page writes a text
\* file.
C20_OcrOnlyForTextPages ==
    [][/\ JustLogged("ocr")
            => /\ log'[Len(log')].called => TextPage
               /\ ~TextPage
                     => /\ ~log'[Len(log')].called
                        /\ ocr_text' = <<>>
                        /\ UNCHANGED processed_dir
       /\ SidecarWritten
            => JustLogged("ocr") /\ TextPage /\ log'[Len(log')].called
       /\ (JustLogged("upsert") /\ ~TextPage)
            => /\ last'.scan_info.ocr_text = <<>>
               /\ last'.ret = "True"
                     => \A doc \in {find_one(books_collection', current_book_hash)} :
                        /\ ScanIndex(doc, parsed_scan_info.page_raw_number_str) > 0
                        /\ \A j \in 1..Len(Scans(doc)) :
                              Scans(doc)[j].page_raw_number_str
                                  = parsed_scan_info.page_raw_number_str
                              => Scans(doc)[j].ocr_text = <<>>
      ]_vars

\* C20 witness: the map C_m1.JPG went through the OCR step without a call
\* and was upserted; the aggregate holds it with an empty ocr_text and the
\* output directory holds its copy and nothing else.
C20_Witness ==
    /\ idx > 0 /\ pc = "mirror"
    /\ parsed_scan_info # NoneDict /\ ~TextPage
    /\ \E i \in 1..Len(log) :
          log[i] = [file |-> scan_path, event |-> "ocr", called |-> FALSE]
    /\ \E doc \in {find_one(books_collection, current_book_hash)} :
          /\ doc # NoneDict
          /\ ScanIndex(doc, parsed_scan_info.page_raw_number_str) > 0
          /\ Scans(doc)[ScanIndex(doc, parsed_scan_info.page_raw_number_str)].ocr_text
                = <<>>
    /\ \A path \in DOMAIN processed_dir :
          processed_dir[path] = [copy_of |-> scan_path]

\* C21: a page of type w or s for which the OCR step ends with no text
\* (engine unavailable, or recognition failed and gave the empty string)
\* goes on to the persist step; its upsert is handed an empty ocr_text and,
\* when it returns True, the aggregate holds the page with an empty
\* ocr_text; what follows the upsert depends on its result alone: mirror
\* then cleanup after True, cleanup after False.
C21_OcrFailureDegradesToEmptyText ==
    [][/\ (JustLogged("ocr") /\ TextPage /\ ocr_text' = <<>>)
            => /\ pc' = "persist"
               /\ UNCHANGED <<storeVars, inbox, metadata_json, idx,
                              parsed_scan_info, current_book_hash,
                              current_book_meta>>
       /\ (JustLogged("upsert") /\ TextPage /\ ocr_text = <<>>)
            => /\ last'.scan_info.ocr_text = <<>>
               /\ last'.ret = "True"
                     => \A doc \in {find_one(books_collection', current_book_hash)} :
                        \A j \in {ScanIndex(doc, parsed_scan_info.page_raw_number_str)} :
                           /\ j > 0
                           /\ Scans(doc)[j].ocr_text = <<>>
               /\ pc' = CASE last'.ret = "True" -> "mirror"
                           [] last'.ret = "False" -> "cleanup"
                           [] OTHER -> "aborted"
       /\ (JustLogged("mirror") /\ TextPage /\ ocr_text = <<>>)
            => pc = "mirror" /\ pc' = "cleanup"
       /\ (JustLogged("cleanup") /\ TextPage /\ ocr_text = <<>>)
            => /\ pc = "cleanup" /\ pc' = "for"
               /\ log'[Len(log')].removed => scan_path \notin inbox'
      ]_vars

\* C21 witness: the OCR engine was not available for a main page; the
\* page was upserted with an empty ocr_text, mirrored, and its original
\* removed.
C21_Witness ==
    /\ idx > 0 /\ pc = "for"
    /\ ParsedScanName[scan_path] # NoneDict
    /\ ParsedScanName[scan_path].page_type_short = <<"s">>
    /\ \E i \in 1..Len(log) :
          log[i] = [file |-> scan_path, event |-> "ocr", called |-> FALSE]
    /\ \E i \in 1..Len(log) :
          log[i] = [file |-> scan_path, event |-> "upsert", ret |-> "True"]
    /\ \E i \in 1..Len(log) :
          log[i] = [file |-> scan_path, event |-> "mirror", read |-> TRUE,
                    saved |-> TRUE]
    /\ \E i \in 1..Len(log) :
          log[i] = [file |-> scan_path, event |-> "cleanup", removed |-> TRUE]
    /\ last.scan_info.ocr_text = <<>>
    /\ scan_path \notin inbox

\* no element occurs twice in the sequence
NoDuplicates(seq) ==
    \A i, j \in 1..Len(seq) : seq[i] = seq[j] => i = j

\* the mirror document and the aggregate agree on the raw page tokens, in
\* order, and on the book-level fields
MirrorAgrees(mirror, doc) ==
    /\ Tokens(mirror) = Tokens(doc)
    /\ \A k \in BookFields \cup {"book_hash"} :
          k \in DOMAIN mirror /\ k \in DOMAIN doc /\ mirror[k] = doc[k]

\* C22: after a step that re-read the aggregate and saved the mirror, the
\* mirror document of the identity holds the raw page tokens of the
\* aggregate, in the same order and each once, and its book-level fields.
C22_MirrorMatchesStore ==
    [][(JustLogged("mirror") /\ log'[Len(log')].saved)
        => \A doc \in {find_one(books_collection, current_book_hash)} :
           \A mirror \in {metadata_json'[current_book_hash]} :
              /\ MirrorAgrees(mirror, doc)
              /\ NoDuplicates(Tokens(mirror))
      ]_vars

\* the agreement alone, duplicates apart
C22_MirrorAgreesWithStore ==
    [][(JustLogged("mirror") /\ log'[Len(log')].saved)
        => MirrorAgrees(metadata_json'[current_book_hash],
                        find_one(books_collection, current_book_hash))
      ]_vars

(***************************************************************************)
(* Properties of parse_scanned_page_filename, checked under SpecParse.     *)
(***************************************************************************)
\* the text is a run of one or more of the digits 0 to 9
AsciiDigits(text) ==
    /\ text # <<>>
    /\ \A i \in 1..Len(text) : \E d \in 1..Len(Digits) : Digits[d] = text[i]

\* the text is one of the ten type codes, in either case
TypeCode(text) == Len(text) = 1 /\ LowerChar(text[1]) \in TypeCodes

\* the text is a supported extension, in any letter case
SupportedExtension(text) == lower(text) \in Extensions

\* the parts are those of a name A_tD.e
WellFormed(parts) ==
    /\ parts.alias # <<>>
    /\ parts.underscore = <<"_">>
    /\ TypeCode(parts.type)
    /\ AsciiDigits(parts.digits)
    /\ parts.dot = <<".">>
    /\ SupportedExtension(parts.ext)

\* the descriptor is the one the parts call for
DescribesParts(d, parts) ==
    /\ d # NoneDict
    /\ d.alias = parts.alias
    /\ d.page_type_short = lower(parts.type)
    /\ d.page_number_numeric = int(parts.digits)
    /\ d.original_extension = <<".">> \o lower(parts.ext)

\* C23 as the spec words it: every name A_tD.e with A not empty is
\* accepted, with alias A, the type code in lower case, the value of D and
\* the extension in lower case.
C23_EveryWellFormedNameParsed ==
    (last.op = "parse" /\ WellFormed(last.parts))
    => DescribesParts(last.ret, last.parts)

\* C23: every name A_tD.e with A not empty and free of line breaks is
\* accepted, with alias A whatever underscores and page-suffix look-alikes
\* A holds, the type code in lower case, the value of D and the extension
\* in lower case.
C23_WellFormedNameParsed ==
    (/\ last.op = "parse"
     /\ WellFormed(last.parts)
     /\ \A i \in 1..Len(last.parts.alias) : last.parts.alias[i] # "\n")
    => DescribesParts(last.ret, last.parts)

\* C23 witness: A_s1.jpg_W00001.TIFF was parsed: the alias is A_s1.jpg,
\* the type w, the page 1, the extension .tiff.
C23_Witness ==
    /\ last.op = "parse"
    /\ last.fname = <<"A", "_", "s", "1", ".", "j", "p", "g", "_", "W",
                       "0", "0", "0", "0", "1", ".", "T", "I", "F", "F">>
    /\ last.ret # NoneDict
    /\ last.ret.alias = <<"A", "_", "s", "1", ".", "j", "p", "g">>
    /\ last.ret.page_type_short = <<"w">>
    /\ last.ret.page_number_numeric = 1
    /\ last.ret.original_extension = <<".", "t", "i", "f", "f">>

EndsInPageSuffix(fname) ==
    \E k, j \in 1..Len(fname) :
        /\ k + 2 <= j /\ j + 2 <= Len(fname)
        /\ fname[k] = "_"
        /\ TypeCode(<<fname[k + 1]>>)
        /\ AsciiDigits(SubSeq(fname, k + 2, j))
        /\ fname[j + 1] = "."
        /\ SupportedExtension(SubSeq(fname, j + 2, Len(fname)))

\* C25: a name that does not end in _<typeCode><digits>.<ext> (no such
\* suffix, a type letter outside the ten codes, no digit after the type
\* letter, an extension outside the supported set) is rejected: the parser
\* returns None.
C25_OtherNamesRejected ==
    (last.op = "parse" /\ ~EndsInPageSuffix(last.fname))
    => last.ret = NoneDict

\* C26: two names with the same type code and the same page number have
\* the same raw page token, the type code in lower case followed by the
\* number padded with zeros to four digits.
C26_SameNumberSameToken ==
    (/\ last.op = "variant"
     /\ last.ret # NoneDict
     /\ last.ret.page_type_short = last.first.page_type_short
     /\ last.ret.page_number_numeric = last.first.page_number_numeric)
    => last.ret.page_raw_number_str = last.first.page_raw_number_str

(***************************************************************************)
(* Properties of generate_book_hash, checked under SpecHash.               *)
(***************************************************************************)
\* a text without the blanks around it
Trimmed(s) ==
    LET inked == {i \in 1..Len(s) : s[i] # " "}
    IN  IF inked = {} THEN <<>>
        ELSE SubSeq(s, CHOOSE i \in inked : \A j \in inked : i <= j,
                       CHOOSE i \in inked : \A j \in inked : j <= i)

\* a character in lower case without its diacritical mark; a character
\* outside ASCII that carries no mark has no folded form
Folded(c) ==
    CASE c \in {"o_acute", "O_ACUTE", "O"} -> <<"o">>
      [] c \in {"z_dot", "Z_DOT", "Z"} -> <<"z">>
      [] c \in {"l_stroke", "L_STROKE"} -> <<>>
      [] c = "A" -> <<"a">>
      [] c = "C" -> <<"c">>
      [] c = "W" -> <<"w">>
      [] c = "X" -> <<"x">>
      [] OTHER -> <<c>>

RECURSIVE FoldedText(_)
FoldedText(s) ==
    IF s = <<>> THEN <<>> ELSE Folded(Head(s)) \o FoldedText(Tail(s))

\* a field of a record after normalisation, an absent field being empty
NormalField(meta, key) ==
    FoldedText(Trimmed(IF key \in DOMAIN meta THEN meta[key] ELSE <<>>))

NormalTuple(meta) ==
    <<NormalField(meta, "title"), NormalField(meta, "authors"),
      NormalField(meta, "year"), NormalField(meta, "pub_place")>>

C28_DistinctTuplesDistinctHashes ==
    (last.op = "hash" /\ NormalTuple(last.meta1) # NormalTuple(last.meta2))
    => last.hash1 # last.hash2

(***************************************************************************)
(* Properties of the batch that rest on the normal form of the metadata.   *)
(***************************************************************************)
\* log entries i and j record the answers given for two different aliases,
\* and the two answers have the same normal tuple
SameBookAnswered(i, j) ==
    /\ i < j
    /\ log[i].event = "asked" /\ log[i].answered
    /\ log[j].event = "asked" /\ log[j].answered
    /\ ParsedScanName[log[i].file].alias # ParsedScanName[log[j].file].alias
    /\ NormalTuple(log[i].meta) = NormalTuple(log[j].meta)

\* the upsert of the page of file f returned True
Upserted(f) ==
    \E i \in 1..Len(log) :
        log[i] = [file |-> f, event |-> "upsert", ret |-> "True"]

\* the aggregates of the store under identity h
AggregatesOf(h) ==
    {k \in 1..Len(books_collection) : books_collection[k].book_hash = h}

\* C29: two aliases of one batch whose answers have the same normal tuple
\* resolve to the same identity, the store holds one aggregate at most
\* under it, and that aggregate holds the page of every file of the two
\* aliases whose upsert succeeded.
C29_SameBookAliasesMerged ==
    \A i \in 1..Len(log) :
        (log[i].event = "asked" /\ log[i].answered) =>
            \A j \in (i + 1)..Len(log) :
                SameBookAnswered(i, j) =>
                    /\ log[i].book_hash = log[j].book_hash
                    /\ \A k, n \in AggregatesOf(log[i].book_hash) : k = n
                    /\ \A f \in {log[i].file, log[j].file} :
                          Upserted(f) =>
                              \E k \in AggregatesOf(log[i].book_hash) :
                              \E n \in 1..Len(Scans(books_collection[k])) :
                                  Scans(books_collection[k])[n].page_raw_number_str
                                      = ParsedScanName[f].page_raw_number_str

\* page s0001 of alias B, answered with one spelling of the title, and map
\* m0001 of alias C, answered with another, are both in the one aggregate
\* of a store that was empty
C29_Witness ==
    /\ pc = "done"
    /\ Len(books_collection) = 1
    /\ Tokens(books_collection[1]) = <<<<"s", "0", "0", "0", "1">>,
                                       <<"m", "0", "0", "0", "1">>>>
    /\ \E i, j \in 1..Len(log) :
          /\ SameBookAnswered(i, j)
          /\ log[i].meta.title # log[j].meta.title
          /\ Upserted(log[i].file) /\ Upserted(log[j].file)

(***************************************************************************)
(* Properties of two runs of the batch, checked under SpecRerun.           *)
(***************************************************************************)
\* the second run was given, for every alias it asked about, the metadata
\* the first run was given
SameAnswers ==
    \A i \in 2..Len(log) :
        log[i].event = "asked" =>
            /\ log[i].answered
            /\ log[i].meta = log[1].answers[ParsedScanName[log[i].file].alias]

\* what the claim compares in an aggregate: identity, bibliographic fields
\* and the sequence of raw page tokens
Compared(doc) ==
    [k \in BookFields \cup {"book_hash", "tokens"} |->
        IF k = "tokens" THEN Tokens(doc) ELSE doc[k]]

\* C30: a second run over the same file names with the same answers, after
\* a first run that stored them all, ends with every aggregate as the
\* first run left it in identity, bibliographic fields and sequence of raw
\* page tokens.
C30_RerunLeavesAggregates ==
    (/\ pc = "done"
     /\ log # <<>> /\ log[1].event = "rerun"
     /\ SameAnswers)
    => /\ Len(books_collection) = Len(log[1].store)
       /\ \A k \in 1..Len(books_collection) :
             Compared(books_collection[k]) = Compared(log[1].store[k])

(***************************************************************************)
(* Properties of the store over the steps of a batch.                      *)
(***************************************************************************)
\* every aggregate of old is in new, under the same identity, with every
\* raw page token it had
Grown(old, new) ==
    \A i \in 1..Len(old) :
    \E k \in 1..Len(new) :
        /\ new[k].book_hash = old[i].book_hash
        /\ \A n \in 1..Len(Scans(old[i])) :
           \E m \in 1..Len(Scans(new[k])) :
               Scans(new[k])[m].page_raw_number_str
                   = Scans(old[i])[n].page_raw_number_str

\* C31: no step removes an aggregate from the store or a raw page token
\* from an aggregate: the identities and the tokens of each only grow.
C31_StoreOnlyGrows ==
    [][Grown(books_collection, books_collection')]_vars

\* an upsert has replaced the entry of page s0001 of an aggregate that held
\* s0001 and s0002, and both tokens are still there
C31_Witness ==
    /\ pc = "mirror"
    /\ last.op = "upsert" /\ last.ret = "True"
    /\ Len(books_collection) = 1
    /\ Tokens(books_collection[1]) = <<<<"s", "0", "0", "0", "1">>,
                                       <<"s", "0", "0", "0", "2">>>>
    /\ Scans(books_collection[1])[1].ocr_text = <<"x">>

(***************************************************************************)
(* Properties of the timeline index, checked under SpecIndex.              *)
(***************************************************************************)
\* the year a parsed date of four digits names
YearOf(parsed) ==
    LET digit(c) == CHOOSE n \in 0..9 :
                        <<"0", "1", "2", "3", "4", "5", "6", "7", "8", "9">>[n + 1] = c
    IN  1000 * digit(parsed[1]) + 100 * digit(parsed[2])
            + 10 * digit(parsed[3]) + digit(parsed[4])

\* the entries of a list that bear this date, in the order of the list
DatedAt(index, parsed) ==
    SelectSeq(index, LAMBDA e : e.date_parsed = parsed)

\* the list is in ascending order of date, and the entries of a same date
\* are in the order in which the loops of build_date_index met them
SortedStably(index, folders) ==
    /\ \A i, j \in 1..Len(index) :
          i < j => YearOf(index[i].date_parsed) <= YearOf(index[j].date_parsed)
    /\ Len(index) = Len(collected(folders, metadata_json))
    /\ \A i \in 1..Len(index) :
          DatedAt(index, index[i].date_parsed)
              = DatedAt(collected(folders, metadata_json), index[i].date_parsed)

\* C32: build_date_index returns its entries in ascending order of the
\* parsed date, entries of equal date in encounter order (folder, then
\* scan, then mention).
C32_IndexSortedStably ==
    last.op = "build"
    => (~last.raised /\ SortedStably(last.index, last.folders))

\* C33: after a run of the indexer, date_index.json holds exactly the
\* index built from the metadata.json files present at that run, also when
\* that index is empty; nothing of an earlier run is left in it.
C33_ArtifactIsTheIndexOfTheRun ==
    last.op = "main"
    => date_index = FileOf(sort(collected(last.folders, metadata_json)))

\* the entry e is what the mention dt of the scan of the book stored in
\* data should give: identity, title and authors of the book, storage path
\* and text of the scan as the ingestion wrote them
Carries(e, data, scan, dt) ==
    /\ e.date_parsed = dt.parsed
    /\ e.date_text = dt.text
    /\ e.book_hash = data.book_hash
    /\ e.book_title = data.title
    /\ e.book_author = data.authors
    /\ e.scan_path = scan.page_full_path
    /\ e.ocr_snippet = SubSeq(scan.ocr_text, 1, Len(scan.ocr_text))
                           \o <<".", ".", ".">>

\* C34: every entry of the index built from metadata.json files written by
\* save_local_metadata_json carries the identity, the title and the author
\* of its book, and the storage path and the OCR text of its scan.
C34_EntriesCarryBookAndScan ==
    last.op = "build"
    => /\ ~last.raised
       /\ \A i \in 1..Len(last.index) :
          \E h \in DOMAIN metadata_json :
          \E n \in 1..Len(metadata_json[h].scans) :
          \E k \in 1..Len(metadata_json[h].scans[n].extracted_dates) :
             /\ "parsed" \in DOMAIN metadata_json[h].scans[n].extracted_dates[k]
             /\ Carries(last.index[i], metadata_json[h],
                        metadata_json[h].scans[n],
                        metadata_json[h].scans[n].extracted_dates[k])

(***************************************************************************)
(* Properties of the order of the loop, checked under SpecBatchFair.       *)
(***************************************************************************)
\* the files the loop has taken up, in the order in which it did
TakenUp ==
    LET heads == SelectSeq(log, LAMBDA e : e.event \in {"parsed", "rejected"})
    IN  [i \in 1..Len(heads) |-> heads[i].file]

\* the position of a file in the work list
PositionOf(f) ==
    CHOOSE n \in 1..Len(files_to_process) : files_to_process[n] = f

\* the work list is in ascending order of name, the files taken up so far
\* are its first idx files in that order, each once, and every step logged
\* for a file comes before every step of the files after it
VisitedInOrder ==
    /\ \A i, j \in 1..Len(files_to_process) :
          i < j => PathLess(files_to_process[i], files_to_process[j])
    /\ TakenUp = SubSeq(files_to_process, 1, idx)
    /\ \A i, j \in 1..Len(log) :
          i < j => PositionOf(log[i].file) <= PositionOf(log[j].file)
    /\ pc = "done" => idx = Len(files_to_process)

\* C35: the loop takes up each file of the work list once, in ascending
\* order of path, finishes the steps of a file before the next one, and
\* ends after the last file unless a call raised out of it.
C35_EachFileOnceInOrderThenEnd ==
    /\ []VisitedInOrder
    /\ <>BatchOver

\* a batch of two files has ended after both were stored, the second
\* after the first
C35_Witness ==
    /\ pc = "done"
    /\ Len(files_to_process) = 2
    /\ TakenUp = files_to_process
    /\ Upserted(files_to_process[1]) /\ Upserted(files_to_process[2])

(***************************************************************************)
(* Properties of the identity a file travels under, checked under          *)
(* SpecBatch.                                                              *)
(***************************************************************************)
\* the identity the session map holds for the alias of the file in hand
RecordedIdentity == session_processed_aliases[parsed_scan_info.alias]

\* the file in hand has passed the identification step
InHandIdentified == pc \in {"copy", "ocr", "persist", "mirror", "cleanup"}

\* the upsert of the file in hand has been called
UpsertCalled == pc \in {"mirror", "cleanup"} /\ last.op = "upsert"

\* C36: for every file that reaches the store, the identity that
\* upsert_book_and_scan recomputes from the metadata it is passed is the
\* identity the session map records for the alias of the file, and that
\* identity is the one the output path and the re-read use.
C36_UpsertIdentityIsRecordedIdentity ==
    InHandIdentified =>
        /\ parsed_scan_info.alias \in DOMAIN session_processed_aliases
        /\ current_book_hash = RecordedIdentity
        /\ generate_book_hash(current_book_meta) = RecordedIdentity
        /\ UpsertCalled =>
              /\ generate_book_hash(last.book_meta) = RecordedIdentity
              /\ last.scan_info.page_full_path
                     = destination_path(RecordedIdentity, parsed_scan_info)
              /\ last.ret = "True" =>
                    \E i \in 1..Len(books_collection) :
                       /\ books_collection[i].book_hash = RecordedIdentity
                       /\ \E k \in 1..Len(books_collection[i].scans) :
                             books_collection[i].scans[k].page_full_path
                                 = last.scan_info.page_full_path

\* a file of an alias whose answer differed in spelling from the stored
\* book it was adopted into has been upserted
C36_Witness ==
    /\ UpsertCalled /\ last.ret = "True"
    /\ current_book_hash = RecordedIdentity
    /\ \E i \in 1..Len(log) :
          /\ log[i].event = "asked" /\ log[i].answered /\ log[i].adopted
          /\ log[i].file = scan_path
          /\ log[i].meta.title # last.book_meta.title

(***************************************************************************)
(* Properties of the stored identity, checked under Spec.                  *)
(***************************************************************************)
\* the four identity fields an aggregate stores
IdentityFields(doc) ==
    [title |-> doc.title, authors |-> doc.authors, year |-> doc.year,
     pub_place |-> doc.pub_place]

\* C37: after any sequence of upserts, the book_hash of every aggregate is
\* generate_book_hash of the title, authors, year and pub_place the
\* aggregate itself stores.
C37_StoredHashIsHashOfStoredFields ==
    \A i \in 1..Len(books_collection) :
       books_collection[i].book_hash
           = generate_book_hash(IdentityFields(books_collection[i]))

\* an aggregate whose book fields were set again after it was inserted, its
\* title now spelt as the later call had it
C37_Witness ==
    \E i \in 1..Len(books_collection) :
       /\ books_collection[i].title = <<"o">>
       /\ books_collection[i].last_updated_book_at
              > books_collection[i].created_at
       /\ books_collection[i].book_hash
              = generate_book_hash(BookMeta(<<"O_ACUTE">>, <<>>))

(***************************************************************************)
(* Properties of the session map, checked under SpecBatch.                 *)
(***************************************************************************)
\* file number n of the work list is the first one with a valid name that
\* carries the alias
FirstFileOf(alias, n) ==
    /\ n \in 1..Len(files_to_process)
    /\ ParsedScanName[files_to_process[n]] # NoneDict
    /\ ParsedScanName[files_to_process[n]].alias = alias
    /\ \A i \in 1..(n - 1) :
          \/ ParsedScanName[files_to_process[i]] = NoneDict
          \/ ParsedScanName[files_to_process[i]].alias # alias

\* a step keeps every entry of the session map as it is, and an entry it
\* adds is that of the alias of the file in hand, which is the first
\* validly named file of that alias
EntryWrittenOnce ==
    /\ \A a \in DOMAIN session_processed_aliases :
          /\ a \in DOMAIN session_processed_aliases'
          /\ session_processed_aliases'[a] = session_processed_aliases[a]
    /\ \A a \in DOMAIN session_processed_aliases' :
          a \notin DOMAIN session_processed_aliases =>
              /\ pc = "resolve"
              /\ FirstFileOf(a, idx)

\* C38: within a batch the entry of an alias in the session map is written
\* once, at the first validly named file of the alias, and never changes:
\* a resolved alias stays resolved to the same identity and an abandoned
\* alias stays abandoned.
C38_AliasDecisionWrittenOnce == [][EntryWrittenOnce]_vars

\* the second file of an alias goes on under the identity recorded at the
\* first, after a single prompt
C38_Witness ==
    /\ pc = "copy" /\ idx = 2
    /\ FirstFileOf(parsed_scan_info.alias, 1)
    /\ session_processed_aliases[parsed_scan_info.alias] = current_book_hash
    /\ current_book_hash # NoneStr
    /\ Cardinality({i \in 1..Len(log) : log[i].event = "asked"}) = 1

(***************************************************************************)
(* Properties of the book fields of an aggregate that was there before     *)
(* the file, checked under SpecBatch.                                      *)
(***************************************************************************)
\* the store holds an aggregate under the identity
StoredBefore(book_hash) == FindIndex(books_collection, book_hash) # 0

\* the loop took the book of the file in hand from the store: the lookup by
\* metadata found it, or the alias was resolved earlier and the book was
\* read again
TakenFromStore ==
    \E i \in 1..Len(log) :
       /\ log[i].file = scan_path
       /\ \/ log[i].event = "resolved"
          \/ log[i].event = "asked" /\ log[i].answered /\ log[i].adopted

\* the step leaves the aggregate of the identity with every field it had,
\* the time of the last update and the scans apart
BookLevelKept(book_hash) ==
    \A old \in {find_one(books_collection, book_hash)} :
    \A new \in {find_one(books_collection', book_hash)} :
       /\ new # NoneDict
       /\ \A k \in DOMAIN old \ {"last_updated_book_at", "scans"} :
             k \in DOMAIN new /\ new[k] = old[k]

ImageFiles ==
    {path \in DOMAIN processed_dir : "copy_of" \in DOMAIN processed_dir[path]}

\* the path lies in the output directory of the identity
InDirectoryOf(path, book_hash) ==
    /\ Len(path) > Len(book_hash)
    /\ SubSeq(path, 1, Len(book_hash) + 1) = book_hash \o <<"/">>

\* the scan entries of a document whose page_full_path is the path
ReferringEntries(doc, path) ==
    {k \in 1..Len(Scans(doc)) : Scans(doc)[k].page_full_path = path}

\* C40: when a batch is over, every standardized image file in the output
\* directory of an identity is the page_full_path of exactly one scan
\* entry of the aggregate of that identity.
C40_EveryImageReferencedOnce ==
    BatchOver =>
        \A path \in ImageFiles :
           \E i \in 1..Len(books_collection) :
              /\ InDirectoryOf(path, books_collection[i].book_hash)
              /\ Cardinality(ReferringEntries(books_collection[i], path)) = 1

=============================================================================
